---- MODULE Spec2Model ----
(***************************************************************************)
(* A model of the TruPharma evidence pipeline:                             *)
(*   - fixed_size_chunk          (src/src/openfda_rag.py)                  *)
(*   - resolve_drug_name/_enrich (src/src/ingestion/rxnorm.py)             *)
(*   - build_unified_profile     (src/src/rag/drug_profile.py)             *)
(*   - fetch_faers_summary       (src/src/ingestion/faers.py)              *)
(*   - build_artifacts           (src/src/openfda_rag.py)                  *)
(*   - run_rag_query, _fuse      (src/src/rag/engine.py)                   *)
(*   - compute_disparity         (src/src/rag/drug_profile.py)             *)
(* Each component has its own specification over the shared variables; the *)
(* variables of the other components stay at their initial values.         *)
(***************************************************************************)
EXTENDS Integers, Sequences, FiniteSets, TLC

\* ------------------------------------------------------------------ bounds
MaxWords == 6
MaxWindow == 3
MaxOverlap == 3
\* cap on appended chunks: stops the exploration of a loop that never ends
MaxChunks == MaxWords + 2

\* ------------------------------------------------------------------ state
VARIABLES
    \* fixed_size_chunk
    words,            \* text.split(): word i of the text is the token i
    words_per_chunk,  \* parameter
    overlap,          \* parameter
    start,            \* the cursor (0-based)
    chunks,           \* the list being built; a chunk is its word sequence
    pcC,              \* "idle" | "loop" | "done"
    \* resolve_drug_name
    stack,            \* the call stack of resolve_drug_name: one frame per call
    history,          \* every strategy invoked: [depth, strategy, found]
    returned,         \* the dict the outermost call returned
    pcR,              \* "idle" | "run" | "done" | "raised"
    \* the fan-outs of build_unified_profile and fetch_faers_summary
    pool,             \* which fan-out runs: "idle" | "profile" | "faers"
    futures,          \* key -> the future of that task
    results,          \* the caller's `results` dict
    out,              \* what the function returned
    pcJ,              \* "idle" | "pool" (inside the with block) | "done"
    \* build_artifacts
    cfg,              \* the keyword arguments of the call
    records_count,    \* records fetched so far
    record_chunks,    \* tier 1: one TextChunk per kept (document, field)
    sub_chunks,       \* tier 2: the word windows of the record chunks
    rc_i,             \* position of the second loop in record_chunks (1-based)
    arts,             \* the returned dict, or the exception that left the call
    pcB,              \* "idle" | "fetch" | "sub" | "done" | "raised" | "hung"
    \* run_rag_query
    req,              \* the arguments of the call
    pool_size,        \* the over-fetch pool of the retrieval
    items,            \* the retrieved chunks, best first
    scorer,           \* what the pairwise scorer of the rerank did: "off" | "ok"
                      \* | "load_failed" | "predict_failed"
    evidence,         \* the evidence pack
    resp,             \* what the generation service gave back
    answer,           \* the answer text
    llm_used,         \* the flag of the result bundle
    bundle,           \* the dict the call returned, or the exception it raised
    pcQ,              \* "idle" | "build" | "retrieve" | "rerank" | "generate"
                      \* | "fallback" | "finish" | "done" | "raised"
    \* _fuse
    dense_res,        \* the dense result list: (score, item) pairs, best first
    sparse_res,       \* the sparse result list
    alpha,            \* the weight of the dense side, a fraction
    fuse_k,           \* k: the length the fused list is cut to
    fused,            \* what _fuse returned
    pcF,              \* "idle" | "call" | "done"
    \* compute_disparity
    label_text,       \* label_adverse_reactions
    top_reactions,    \* faers_top_reactions
    report,           \* the returned dict
    pcD,              \* "idle" | "call" | "done"
    \* _fetch_label_sections
    label_args,       \* generic_name and brand_name
    queries,          \* the list of queries of the loop
    q_i,              \* the position of the loop in it, from 1
    issued,           \* the searches sent to the label source, in order
    label_records,    \* records
    label_out,        \* the returned dict, or the exception raised
    pcL,              \* "idle" | "loop" | "bare" | "merge" | "done" | "raised"
    \* _merge_records
    ndc_records,      \* records
    ndc_generic,      \* generic_name
    ndc_out,          \* the returned dict
    pcN,              \* "idle" | "call" | "done"
    \* iter_openfda_records
    iter_args,        \* limit and max_records
    fetched,          \* the records yielded
    skip,             \* skip
    requests,         \* the requests sent to the source and the size of each answer
    pcI               \* "idle" | "loop" | "done" | "raised"

chunkVars == <<words, words_per_chunk, overlap, start, chunks, pcC>>
resolveVars == <<stack, history, returned, pcR>>
fanVars == <<pool, futures, results, out, pcJ>>
corpusVars == <<cfg, records_count, record_chunks, sub_chunks, rc_i, arts, pcB>>
queryVars == <<req, pool_size, items, scorer, evidence, resp, answer, llm_used, bundle, pcQ>>
fuseVars == <<dense_res, sparse_res, alpha, fuse_k, fused, pcF>>
disparityVars == <<label_text, top_reactions, report, pcD>>
labelVars == <<label_args, queries, q_i, issued, label_records, label_out, pcL>>
ndcVars == <<ndc_records, ndc_generic, ndc_out, pcN>>
iterVars == <<iter_args, fetched, skip, requests, pcI>>
intakeVars == <<labelVars, ndcVars, iterVars>>
engineVars == <<corpusVars, queryVars, fuseVars, disparityVars>>
vars == <<chunkVars, resolveVars, fanVars, corpusVars, queryVars, fuseVars, disparityVars,
          intakeVars>>
\* what a step of one component leaves alone
notChunk == <<resolveVars, fanVars, corpusVars, queryVars, fuseVars, disparityVars, intakeVars>>
notResolve == <<chunkVars, fanVars, corpusVars, queryVars, fuseVars, disparityVars, intakeVars>>
notFan == <<chunkVars, resolveVars, corpusVars, queryVars, fuseVars, disparityVars, intakeVars>>
notCorpus == <<chunkVars, resolveVars, fanVars, queryVars, fuseVars, disparityVars, intakeVars>>
notQuery == <<chunkVars, resolveVars, fanVars, corpusVars, fuseVars, disparityVars, intakeVars>>
notFuse == <<chunkVars, resolveVars, fanVars, corpusVars, queryVars, disparityVars, intakeVars>>
notDisparity == <<chunkVars, resolveVars, fanVars, corpusVars, queryVars, fuseVars, intakeVars>>
notLabel == <<chunkVars, resolveVars, fanVars, engineVars, ndcVars, iterVars>>
notNdc == <<chunkVars, resolveVars, fanVars, engineVars, labelVars, iterVars>>
notIter == <<chunkVars, resolveVars, fanVars, engineVars, labelVars, ndcVars>>

\* ------------------------------------------------------------------ helpers
Min(a, b) == IF a < b THEN a ELSE b
Max(a, b) == IF a > b THEN a ELSE b
Range(s) == {s[i] : i \in DOMAIN s}
Last(s) == s[Len(s)]

\* Python's dict.get(key, default) on a JSON object
EmptyDict == [k \in {} |-> 0]
Get(d, k, default) == IF k \in DOMAIN d THEN d[k] ELSE default

RECURSIVE ConcatAll(_)
ConcatAll(ss) == IF ss = <<>> THEN <<>> ELSE Head(ss) \o ConcatAll(Tail(ss))

\* keep the first occurrence of every element (`if n not in names`)
RECURSIVE Dedupe(_)
Dedupe(s) ==
    IF s = <<>> THEN <<>>
    ELSE LET rest == Dedupe(SubSeq(s, 1, Len(s) - 1)) IN
         IF Last(s) \in Range(rest) THEN rest ELSE Append(rest, Last(s))

InitResolveIdle ==
    /\ stack = <<>>
    /\ history = <<>>
    /\ returned = EmptyDict
    /\ pcR = "idle"

InitFanIdle ==
    /\ pool = "idle"
    /\ futures = EmptyDict
    /\ results = EmptyDict
    /\ out = EmptyDict
    /\ pcJ = "idle"

InitCorpusIdle ==
    /\ cfg = EmptyDict
    /\ records_count = 0
    /\ record_chunks = <<>>
    /\ sub_chunks = <<>>
    /\ rc_i = 1
    /\ arts = EmptyDict
    /\ pcB = "idle"

InitQueryIdle ==
    /\ req = EmptyDict
    /\ pool_size = 0
    /\ items = <<>>
    /\ scorer = "off"
    /\ evidence = <<>>
    /\ resp = EmptyDict
    /\ answer = [py |-> "None"]
    /\ llm_used = FALSE
    /\ bundle = EmptyDict
    /\ pcQ = "idle"

InitFuseIdle ==
    /\ dense_res = <<>>
    /\ sparse_res = <<>>
    /\ alpha = [num |-> 1, den |-> 2]
    /\ fuse_k = 15
    /\ fused = <<>>
    /\ pcF = "idle"

InitDisparityIdle ==
    /\ label_text = <<>>
    /\ top_reactions = <<>>
    /\ report = EmptyDict
    /\ pcD = "idle"

\* the components of engine.py and the disparity analysis are not running
InitLabelIdle ==
    /\ label_args = EmptyDict
    /\ queries = <<>>
    /\ q_i = 1
    /\ issued = <<>>
    /\ label_records = <<>>
    /\ label_out = <<>>
    /\ pcL = "idle"

InitNdcIdle ==
    /\ ndc_records = <<>>
    /\ ndc_generic = <<>>
    /\ ndc_out = EmptyDict
    /\ pcN = "idle"

InitIterIdle ==
    /\ iter_args = EmptyDict
    /\ fetched = 0
    /\ skip = 0
    /\ requests = <<>>
    /\ pcI = "idle"

InitIntakeIdle == InitLabelIdle /\ InitNdcIdle /\ InitIterIdle
InitEngineIdle ==
    InitCorpusIdle /\ InitQueryIdle /\ InitFuseIdle /\ InitDisparityIdle /\ InitIntakeIdle

\* ================================================================== chunker
\* words[start:end] of Python (0-based, end exclusive); joined by single
\* blanks, so the chunk's word count is the length of the slice.
Slice(ws, s, e) == SubSeq(ws, s + 1, e)

\* end = min(len(words), start + words_per_chunk)
ChunkEnd(n, s, w) == Min(n, s + w)

NextStart_skip(e, ov) == Max(0, e - ov) + 1
\* start = max(0, end - overlap)
NextStart(e, ov) == Max(0, e - ov)

InitChunkIdle ==
    /\ words = <<>>
    /\ words_per_chunk = 1
    /\ overlap = 0
    /\ start = 0
    /\ chunks = <<>>
    /\ pcC = "idle"

InitChunk ==
    /\ words \in {[i \in 1..n |-> i] : n \in 0..MaxWords}
    /\ words_per_chunk \in 1..MaxWindow
    /\ overlap \in 0..MaxOverlap
    /\ start = 0
    /\ chunks = <<>>
    /\ pcC = "loop"

\* one iteration of `while start < len(words)`
ChunkStep ==
    /\ pcC = "loop"
    /\ start < Len(words)
    /\ Len(chunks) < MaxChunks
    /\ LET end == ChunkEnd(Len(words), start, words_per_chunk) IN
         /\ chunks' = Append(chunks, Slice(words, start, end))
         /\ IF end = Len(words)
              THEN /\ pcC' = "done"
                   /\ start' = start
              ELSE /\ pcC' = "loop"
                   /\ start' = NextStart(end, overlap)
    /\ UNCHANGED <<words, words_per_chunk, overlap, notChunk>>

\* the loop condition is false: return chunks
ChunkExit ==
    /\ pcC = "loop"
    /\ start >= Len(words)
    /\ pcC' = "done"
    /\ UNCHANGED <<words, words_per_chunk, overlap, start, chunks, notChunk>>

NextChunk == ChunkStep \/ ChunkExit

InitChunker == InitChunk /\ InitResolveIdle /\ InitFanIdle /\ InitEngineIdle
SpecChunk == InitChunker /\ [][NextChunk]_vars
\* the loop is sequential code: it keeps running while a step is possible
SpecChunkFair == SpecChunk /\ WF_vars(NextChunk)

\* ------------------------------------------------------------------ C1
\* C1: on every step of the loop of fixed_size_chunk that continues the
\* loop, the cursor `start` advances by at least one word, for every text
\* and every (window size, overlap) pair, overlap >= window size included.
C1_CursorAdvances ==
    [][(pcC = "loop" /\ pcC' = "loop") => start' > start]_vars

\* ------------------------------------------------------------------ C2
Contiguous(c) == \A k \in 1..(Len(c) - 1) : c[k + 1] = c[k] + 1

C2_Safety ==
    (words_per_chunk > overlap) =>
        /\ \A i \in DOMAIN chunks :
              /\ Len(chunks[i]) <= words_per_chunk
              /\ Len(chunks[i]) >= 1
              /\ Contiguous(chunks[i])
        /\ \A i \in 1..(Len(chunks) - 1) :
              /\ chunks[i + 1][1] > chunks[i][1]
              /\ chunks[i + 1][1] <= Last(chunks[i]) + 1
        /\ (chunks # <<>>) => chunks[1][1] = 1
        /\ (pcC = "loop") => Len(chunks) <= start
        /\ (pcC = "done") =>
              /\ \A p \in 1..Len(words) : \E i \in DOMAIN chunks : p \in Range(chunks[i])
              /\ (Len(words) > 0) => Last(Last(chunks)) = Len(words)
              /\ (Len(words) = 0) => chunks = <<>>

\* C2: for any word sequence and any window > overlap >= 0, fixed_size_chunk
\* terminates, the returned chunks cover every word position in order (the
\* first chunk starts at the first word, the last chunk ends at the last
\* word, no gap between consecutive chunks) and no chunk has more than
\* `window` words.
C2_TerminatesCoversBounded ==
    /\ []C2_Safety
    /\ ((words_per_chunk > overlap) => <>(pcC = "done"))

\* a run with several overlapping windows that has returned
C2_Witness ==
    /\ pcC = "done"
    /\ words_per_chunk > overlap
    /\ overlap > 0
    /\ Len(chunks) >= 3
    /\ Len(Last(chunks)) < words_per_chunk

\* ================================================================== resolver
\* Strings are sequences of characters, so that str.strip() is computed.
\* An RxCUI is an atom. None is a value of its own in either type.
NoneStr == <<"None">>
NoneCui == "None"
\* Python truthiness of an Optional[str]
TruthyStr(s) == s # NoneStr /\ s # <<>>
TruthyCui(c) == c # NoneCui /\ c # ""

RECURSIVE LStrip(_)
LStrip(s) == IF s # <<>> /\ Head(s) = " " THEN LStrip(Tail(s)) ELSE s
RECURSIVE RStrip(_)
RStrip(s) == IF s # <<>> /\ Last(s) = " " THEN RStrip(SubSeq(s, 1, Len(s) - 1)) ELSE s
\* str.strip()
Strip(s) == RStrip(LStrip(s))

\* ---- what the caller and the identifier service can supply
InputNames == {<<>>, <<" ">>, <<"x">>, <<" ", "x">>, <<"x", " ">>, <<"y">>}
SuggestedNames == {<<"x">>, <<"y">>, <<" ">>}
Cuis == {"c1", "c2"}
Generic == <<"g">>
Brand == <<"b">>
Brand2 == <<"B">>
ApproxName == <<"a">>

Prop(n, c) == [name |-> n, rxcui |-> c]
Group(tty, props) == [tty |-> tty, conceptProperties |-> props]

\* _api_get: the parsed JSON object, or {} on any failure
FailOr(responses) == responses \cup {EmptyDict}

RxcuiResponses ==
    {[idGroup |-> EmptyDict]} \cup {[idGroup |-> [rxnormId |-> <<c>>]] : c \in Cuis \cup {""}}

DrugsResponses ==
    { [drugGroup |-> EmptyDict],
      [drugGroup |-> [conceptGroup |-> <<Group("DF", <<Prop(Generic, "")>>)>>]],
      [drugGroup |-> [conceptGroup |-> <<Group("SBD", <<Prop(Brand, "c1")>>)>>]],
      [drugGroup |-> [conceptGroup |->
          <<Group("SCD", <<Prop(Generic, "c2")>>),
            Group("SBD", <<Prop(Brand, "c1"), Prop(Brand, "c2"), Prop(Brand2, "c1")>>)>>]] }

Cand(c, n) == [rxcui |-> c, name |-> n, score |-> "9"]
ApproxResponses ==
    { [approximateGroup |-> EmptyDict],
      [approximateGroup |-> [candidate |-> <<Cand("c1", ApproxName)>>]],
      [approximateGroup |-> [candidate |-> <<Cand("", ApproxName), Cand("c2", <<" ">>)>>]],
      [approximateGroup |-> [candidate |->
          <<Cand("c2", ApproxName), Cand("c2", Generic), Cand("c1", Generic)>>]] }

PropsResponses == {[properties |-> [name |-> Generic]]}

SpellResponses ==
    {[suggestionGroup |-> EmptyDict], [suggestionGroup |-> [suggestionList |-> EmptyDict]]}
    \cup {[suggestionGroup |-> [suggestionList |-> [suggestion |-> <<n>>]]] : n \in SuggestedNames}

GenericResponses ==
    { [relatedGroup |-> EmptyDict],
      [relatedGroup |-> [conceptGroup |->
          <<Group("IN", <<Prop(<<>>, "c1"), Prop(Generic, "c2")>>)>>]] }

BrandResponses ==
    { [relatedGroup |-> EmptyDict],
      [relatedGroup |-> [conceptGroup |->
          <<Group("BN", <<Prop(Brand, "c1"), Prop(<<>>, "c2"), Prop(Brand, "c2")>>)>>]] }

RelatedCuiLists == {<<>>, <<"c1">>, <<"c2">>, <<"c2", "c1">>, <<"c1", "c2", "c1">>, <<"", "c2">>}
AllRelatedResponses ==
    {[allRelatedGroup |-> EmptyDict]} \cup
    {[allRelatedGroup |-> [conceptGroup |->
        <<Group("X", [i \in DOMAIN l |-> Prop(<<>>, l[i])])>>]] : l \in RelatedCuiLists}

\* ---- the helper functions, applied to the response of their request
\* all conceptProperties of all groups, each tagged with its group's tty
TaggedProps(groups) ==
    ConcatAll([i \in DOMAIN groups |->
        LET props == Get(groups[i], "conceptProperties", <<>>) IN
        [j \in DOMAIN props |->
            [tty |-> Get(groups[i], "tty", ""),
             name |-> Get(props[j], "name", <<>>),
             rxcui |-> Get(props[j], "rxcui", "")]]])

NamesOf(ps) == [i \in DOMAIN ps |-> ps[i].name]
CuisOf(ps) == [i \in DOMAIN ps |-> ps[i].rxcui]

get_rxcui_by_name(data) ==
    LET group == Get(data, "idGroup", EmptyDict)
        ids == Get(group, "rxnormId", <<>>)
    IN IF ids # <<>> /\ ids[1] # "" THEN ids[1] ELSE NoneCui

BrandTtys == {"BN", "BPCK", "SBD", "SBDF", "SBDG"}
GenericTtys == {"IN", "MIN", "PIN", "SCD", "SCDF", "SCDG"}

get_drug_info(data) ==
    LET groups == Get(Get(data, "drugGroup", EmptyDict), "conceptGroup", <<>>)
        ps == TaggedProps(groups)
        IsBrand(p) == p.tty \in BrandTtys
        IsGeneric(p) == p.tty \in GenericTtys
        HasCui(p) == p.rxcui # ""
    IN [brands |-> NamesOf(SelectSeq(ps, IsBrand)),
        generics |-> NamesOf(SelectSeq(ps, IsGeneric)),
        rxcuis |-> CuisOf(SelectSeq(ps, HasCui))]

get_rxcui_properties(data) == Get(data, "properties", EmptyDict)

RECURSIVE ApproxLoop(_, _, _)
ApproxLoop(cands, seen, propsData) ==
    IF cands = <<>> THEN <<>>
    ELSE LET c == Head(cands)
             rxcui == Get(c, "rxcui", "")
             name0 == Strip(Get(c, "name", <<>>))
         IN IF rxcui = "" \/ rxcui \in seen
              THEN ApproxLoop(Tail(cands), seen, propsData)
              ELSE LET name == IF name0 = <<>>
                                 THEN Get(get_rxcui_properties(propsData), "name", <<>>)
                                 ELSE name0
                   IN IF name = <<>>
                        THEN ApproxLoop(Tail(cands), seen \cup {rxcui}, propsData)
                        ELSE <<[rxcui |-> rxcui, name |-> name, score |-> Get(c, "score", "")]>>
                             \o ApproxLoop(Tail(cands), seen \cup {rxcui}, propsData)

get_approximate_match(data, propsData) ==
    ApproxLoop(Get(Get(data, "approximateGroup", EmptyDict), "candidate", <<>>), {}, propsData)

get_spelling_suggestions(data) ==
    Get(Get(Get(data, "suggestionGroup", EmptyDict), "suggestionList", EmptyDict),
        "suggestion", <<>>)

get_related_brands(data) ==
    LET ps == TaggedProps(Get(Get(data, "relatedGroup", EmptyDict), "conceptGroup", <<>>))
        Named(p) == p.name # <<>>
    IN Dedupe(NamesOf(SelectSeq(ps, Named)))

get_generic_from_brand(data) ==
    LET ps == TaggedProps(Get(Get(data, "relatedGroup", EmptyDict), "conceptGroup", <<>>))
        Named(p) == p.name # <<>>
        named == SelectSeq(ps, Named)
    IN IF named = <<>> THEN NoneStr ELSE named[1].name

get_all_related_rxcuis(data) ==
    LET ps == TaggedProps(Get(Get(data, "allRelatedGroup", EmptyDict), "conceptGroup", <<>>))
        HasCui(p) == p.rxcui # ""
    IN Dedupe(CuisOf(SelectSeq(ps, HasCui)))

\* ---- the result dict and its enrichment
InitResult(name) ==
    [input |-> name, resolved_name |-> name, rxcui |-> NoneCui, brand_names |-> <<>>,
     generic_name |-> NoneStr, all_rxcuis |-> <<>>, spelling_suggestion |-> NoneStr,
     confidence |-> "none"]

\* the responses the requests of one _enrich call get
EnrichInputs ==
    [generic : FailOr(GenericResponses), parent : FailOr(RxcuiResponses),
     bparent : FailOr(BrandResponses), bown : FailOr(BrandResponses),
     related : FailOr(AllRelatedResponses)]

\* if rxcui not in result["all_rxcuis"]: result["all_rxcuis"].insert(0, rxcui)
InsertPrimary(cuis, rxcui) ==
    IF rxcui \notin Range(cuis) THEN <<rxcui>> \o cuis ELSE cuis

enrich(result, rxcui, original_input, e) ==
    LET r1 == IF ~TruthyStr(result.generic_name)
                THEN LET generic == get_generic_from_brand(e.generic) IN
                     IF TruthyStr(generic)
                       THEN [result EXCEPT !.generic_name = generic, !.resolved_name = generic]
                       ELSE result
                ELSE result
        r2a == IF r1.brand_names = <<>> /\ TruthyStr(r1.generic_name)
                    /\ TruthyCui(get_rxcui_by_name(e.parent))
                 THEN [r1 EXCEPT !.brand_names = get_related_brands(e.bparent)]
                 ELSE r1
        r2 == IF r1.brand_names = <<>> /\ r2a.brand_names = <<>>
                THEN [r2a EXCEPT !.brand_names = get_related_brands(e.bown)]
                ELSE r2a
        r3 == IF r2.all_rxcuis = <<>>
                THEN [r2 EXCEPT !.all_rxcuis = get_all_related_rxcuis(e.related)]
                ELSE r2
        r4 == [r3 EXCEPT !.all_rxcuis = InsertPrimary(@, rxcui)]
    IN IF (~TruthyStr(r4.resolved_name) \/ r4.resolved_name = original_input)
             /\ TruthyStr(r4.generic_name)
         THEN [r4 EXCEPT !.resolved_name = r4.generic_name]
         ELSE r4

\* ---- the call stack
\* the interpreter's recursion limit (sys.getrecursionlimit(), 1000 by
\* default), scaled down: a call beyond it raises RecursionError
MaxDepth == 3

Frame(name) == [name |-> name, clean |-> <<>>, result |-> InitResult(name), pc |-> "enter"]
Top == stack[Len(stack)]
Depth == Len(stack) - 1
SetTop(f) == [stack EXCEPT ![Len(stack)] = f]
Logged(strategy, found) ==
    Append(history, [depth |-> Depth, strategy |-> strategy, found |-> found])

\* the tests that end the cascade
ExactHit_never(rxcui) == FALSE
ExactHit(rxcui) == TruthyCui(rxcui)
DrugsHit(info) == info.rxcuis # <<>>
ApproxHit(approx) == approx # <<>>
SpellHit(suggestions) == suggestions # <<>>

InitResolve ==
    /\ stack \in {<<Frame(n)>> : n \in InputNames}
    /\ history = <<>>
    /\ returned = EmptyDict
    /\ pcR = "run"

\* clean = name.strip(); if not clean: return result
Enter ==
    /\ pcR = "run"
    /\ Top.pc = "enter"
    /\ LET clean == Strip(Top.name) IN
         stack' = SetTop([Top EXCEPT !.clean = clean,
                                     !.pc = IF clean = <<>> THEN "ret" ELSE "exact"])
    /\ UNCHANGED <<history, returned, pcR, notResolve>>

\* 1. exact match
Exact ==
    /\ pcR = "run"
    /\ Top.pc = "exact"
    /\ \E d \in FailOr(RxcuiResponses) :
         LET rxcui == get_rxcui_by_name(d) IN
         /\ history' = Logged("exact", TruthyCui(rxcui))
         /\ IF ExactHit(rxcui)
              THEN \E e \in EnrichInputs :
                     stack' = SetTop([Top EXCEPT
                         !.result = enrich([@ EXCEPT !.rxcui = rxcui, !.confidence = "exact"],
                                           rxcui, Top.clean, e),
                         !.pc = "ret"])
              ELSE stack' = SetTop([Top EXCEPT !.pc = "drugs"])
    /\ UNCHANGED <<returned, pcR, notResolve>>

\* 2. /drugs endpoint
Drugs ==
    /\ pcR = "run"
    /\ Top.pc = "drugs"
    /\ \E d \in FailOr(DrugsResponses) :
         LET info == get_drug_info(d) IN
         /\ history' = Logged("drugs", info.rxcuis # <<>>)
         /\ IF DrugsHit(info)
              THEN \E e \in EnrichInputs :
                     LET rxcui == info.rxcuis[1]
                         r1 == [Top.result EXCEPT !.rxcui = rxcui, !.confidence = "exact"]
                         r2 == IF info.generics # <<>>
                                 THEN [r1 EXCEPT !.generic_name = info.generics[1],
                                                 !.resolved_name = info.generics[1]]
                                 ELSE r1
                         r3 == IF info.brands # <<>>
                                 THEN [r2 EXCEPT !.brand_names = Dedupe(info.brands)]
                                 ELSE r2
                         r4 == [r3 EXCEPT !.all_rxcuis = Dedupe(info.rxcuis)]
                     IN stack' = SetTop([Top EXCEPT
                            !.result = enrich(r4, rxcui, Top.clean, e), !.pc = "ret"])
              ELSE stack' = SetTop([Top EXCEPT !.pc = "approx"])
    /\ UNCHANGED <<returned, pcR, notResolve>>

\* 3. approximate match
Approx ==
    /\ pcR = "run"
    /\ Top.pc = "approx"
    /\ \E d \in FailOr(ApproxResponses), pd \in FailOr(PropsResponses) :
         LET approx == get_approximate_match(d, pd) IN
         /\ history' = Logged("approx", approx # <<>>)
         /\ IF ApproxHit(approx)
              THEN \E e \in EnrichInputs :
                     LET best == approx[1]
                         r1 == [Top.result EXCEPT !.rxcui = best.rxcui,
                                                  !.resolved_name = best.name,
                                                  !.confidence = "approximate"]
                     IN stack' = SetTop([Top EXCEPT
                            !.result = enrich(r1, best.rxcui, Top.clean, e), !.pc = "ret"])
              ELSE stack' = SetTop([Top EXCEPT !.pc = "spell"])
    /\ UNCHANGED <<returned, pcR, notResolve>>

\* 4. spelling suggestions: the call of resolve_drug_name(corrected)
Spell ==
    /\ pcR = "run"
    /\ Top.pc = "spell"
    /\ \E d \in FailOr(SpellResponses) :
         LET suggestions == get_spelling_suggestions(d) IN
         /\ history' = Logged("spell", suggestions # <<>>)
         /\ IF SpellHit(suggestions)
              THEN LET corrected == suggestions[1]
                       r1 == [Top.result EXCEPT !.spelling_suggestion = corrected,
                                                !.confidence = "spelling_corrected"]
                   IN IF Len(stack) < MaxDepth
                        THEN /\ stack' = Append(SetTop([Top EXCEPT !.result = r1,
                                                                   !.pc = "await"]),
                                                Frame(corrected))
                             /\ pcR' = "run"
                        ELSE /\ stack' = <<>>
                             /\ pcR' = "raised"
              ELSE /\ stack' = SetTop([Top EXCEPT !.pc = "ret"])
                   /\ pcR' = "run"
    /\ UNCHANGED <<returned, notResolve>>

\* return result: to the caller, or into the frame that awaits `sub`
Return ==
    /\ pcR = "run"
    /\ Top.pc = "ret"
    /\ IF Len(stack) = 1
         THEN /\ returned' = Top.result
              /\ pcR' = "done"
              /\ stack' = <<>>
         ELSE LET sub == Top.result
                  caller == stack[Len(stack) - 1]
                  merged == IF TruthyCui(sub.rxcui)
                              THEN [caller.result EXCEPT
                                      !.rxcui = sub.rxcui,
                                      !.resolved_name = sub.resolved_name,
                                      !.generic_name = sub.generic_name,
                                      !.brand_names = sub.brand_names,
                                      !.all_rxcuis = sub.all_rxcuis]
                              ELSE caller.result
              IN /\ stack' = Append(SubSeq(stack, 1, Len(stack) - 2),
                                    [caller EXCEPT !.result = merged, !.pc = "ret"])
                 /\ returned' = returned
                 /\ pcR' = "run"
    /\ UNCHANGED <<history, notResolve>>

NextResolve == Enter \/ Exact \/ Drugs \/ Approx \/ Spell \/ Return

InitResolver == InitChunkIdle /\ InitResolve /\ InitFanIdle /\ InitEngineIdle
SpecResolve == InitResolver /\ [][NextResolve]_vars

\* ================================================================== fan-outs
\* Python values in a slot that may also hold None carry their type
PyNone == [py |-> "None"]
PyInt(n) == [py |-> "int", v |-> n]
PyStr(x) == [py |-> "str", v |-> x]
PyList(l) == [py |-> "list", v |-> l]
PyDict(d) == [py |-> "dict", v |-> d]
Truthy(x) ==
    CASE x.py = "None" -> FALSE
      [] x.py = "int" -> x.v # 0
      [] x.py = "str" -> x.v # ""
      [] x.py = "list" -> x.v # <<>>
      [] x.py = "dict" -> DOMAIN x.v # {}
\* `x or default`
OrElse(x, default) == IF Truthy(x) THEN x.v ELSE default

\* d[k] = v
Put(d, k, v) == [j \in DOMAIN d \cup {k} |-> IF j = k THEN v ELSE d[j]]

\* a concurrent.futures.Future
Running == [state |-> "running"]
Returned(v) == [state |-> "returned", value |-> v]
Raised == [state |-> "raised"]
Finished(f) == f.state # "running"

\* the `generic` name both fan-outs are called with
GenericName == "ibuprofen"

WorkerResults_shared(rs, key, v) == Put(rs, key, v)
\* what a worker task does to the caller's `results`: the task functions
\* return their value and assign nothing
WorkerResults(rs, key, v) == rs

\* `for future in as_completed(futures)` ends, and the with block is left,
\* when every future was yielded
JoinReady(fs, rs) == DOMAIN rs = DOMAIN fs

\* ---- fetch_faers_summary
FaersKeys == {"total", "reactions", "seriousness", "reporters", "sex", "age", "samples"}

FaersEmpty(generic_name) ==
    [drug_name |-> generic_name, total_reports |-> 0, top_reactions |-> <<>>,
     seriousness |-> EmptyDict, reporter_types |-> EmptyDict, patient_sex |-> EmptyDict,
     patient_age_groups |-> EmptyDict, sample_narratives |-> <<>>]

\* what the seven sub-queries can return
FaersValues(key) ==
    CASE key = "total" -> {PyInt(0), PyInt(120)}
      [] key = "reactions" ->
            {PyList(<<>>), PyList(<<[term |-> "NAUSEA", count |-> 80]>>)}
      [] key = "seriousness" ->
            {PyDict([serious |-> 0, death |-> 0, hospitalization |-> 0,
                     life_threatening |-> 0, disabling |-> 0]),
             PyDict([serious |-> 60, death |-> 5, hospitalization |-> 30,
                     life_threatening |-> 2, disabling |-> 1])}
      [] key = "reporters" -> {PyDict(EmptyDict), PyDict([physician |-> 100])}
      [] key = "sex" -> {PyDict(EmptyDict), PyDict([female |-> 100])}
      [] key = "age" -> {PyDict(EmptyDict), PyDict([adult |-> 100])}
      [] key = "samples" ->
            {PyList(<<>>),
             PyList(<<[age_group |-> "adult", sex |-> "female", drugs |-> <<"ADVIL">>,
                       reactions |-> <<"NAUSEA">>, outcome |-> "death",
                       receive_date |-> "20240101"]>>)}

ZeroTotal_never(total) == FALSE
\* if total == 0: return empty
ZeroTotal(total) == total = 0

\* the summary built from `results` after the with block
FaersMerge(rs, generic_name) ==
    LET total == OrElse(Get(rs, "total", PyInt(0)), 0) IN
    IF ZeroTotal(total)
      THEN FaersEmpty(generic_name)
      ELSE [drug_name |-> generic_name,
            total_reports |-> total,
            top_reactions |-> OrElse(Get(rs, "reactions", PyNone), <<>>),
            seriousness |-> OrElse(Get(rs, "seriousness", PyNone), EmptyDict),
            reporter_types |-> OrElse(Get(rs, "reporters", PyNone), EmptyDict),
            patient_sex |-> OrElse(Get(rs, "sex", PyNone), EmptyDict),
            patient_age_groups |-> OrElse(Get(rs, "age", PyNone), EmptyDict),
            sample_narratives |-> OrElse(Get(rs, "samples", PyNone), <<>>)]

FaersTaskReturns(key) ==
    /\ pool = "faers"
    /\ pcJ = "pool"
    /\ futures[key] = Running
    /\ \E v \in FaersValues(key) :
         /\ futures' = [futures EXCEPT ![key] = Returned(v)]
         /\ results' = WorkerResults(results, key, v)
    /\ UNCHANGED <<pool, out, pcJ, notFan>>

FaersTaskRaises(key) ==
    /\ pool = "faers"
    /\ pcJ = "pool"
    /\ futures[key] = Running
    /\ futures' = [futures EXCEPT ![key] = Raised]
    /\ UNCHANGED <<pool, results, out, pcJ, notFan>>

\* the body of the as_completed loop for one finished future
FaersCollect(key) ==
    /\ pool = "faers"
    /\ pcJ = "pool"
    /\ Finished(futures[key])
    /\ key \notin DOMAIN results
    /\ results' = Put(results, key,
                      IF futures[key].state = "returned" THEN futures[key].value ELSE PyNone)
    /\ UNCHANGED <<pool, futures, out, pcJ, notFan>>

FaersReturn ==
    /\ pool = "faers"
    /\ pcJ = "pool"
    /\ JoinReady(futures, results)
    /\ out' = FaersMerge(results, GenericName)
    /\ pcJ' = "done"
    /\ UNCHANGED <<pool, futures, results, notFan>>

\* ---- build_unified_profile
ProfileKeys == {"labels", "faers", "ndc"}

\* the `empty` record of fetch_ndc_metadata
NdcEmpty(generic_name) ==
    [brand_names |-> <<>>, generic_name |-> generic_name, manufacturer |-> PyNone,
     active_ingredients |-> <<>>, dosage_forms |-> <<>>, routes |-> <<>>,
     marketing_category |-> PyNone, application_number |-> PyNone,
     product_type |-> PyNone, pharm_class_epc |-> <<>>, pharm_class_moa |-> <<>>,
     pharm_class_cs |-> <<>>, dea_schedule |-> PyNone, product_ndcs |-> <<>>,
     rxcuis |-> <<>>]

\* what the three fetches can return
ProfileValues(key) ==
    CASE key = "labels" ->
            {EmptyDict, [adverse_reactions |-> "Common reactions include nausea."]}
      [] key = "faers" ->
            {FaersEmpty(GenericName),
             FaersMerge([k \in FaersKeys |->
                            IF k = "total" THEN PyInt(120)
                            ELSE IF k = "reactions"
                                   THEN PyList(<<[term |-> "NAUSEA", count |-> 80]>>)
                                   ELSE PyNone],
                        GenericName)}
      [] key = "ndc" ->
            {NdcEmpty(GenericName),
             [NdcEmpty(GenericName) EXCEPT !.brand_names = <<"Advil">>,
                                           !.manufacturer = PyStr("Pfizer")]}

ProfileDefault_swapped(key, generic) ==
    IF key = "faers" THEN EmptyDict
    ELSE [drug_name |-> generic, total_reports |-> 0, top_reactions |-> <<>>,
          seriousness |-> EmptyDict, reporter_types |-> EmptyDict,
          patient_sex |-> EmptyDict, patient_age_groups |-> EmptyDict,
          sample_narratives |-> <<>>]
\* the value the except branch stores for a task that raised
ProfileDefault(key, generic) ==
    IF key # "faers" THEN EmptyDict
    ELSE [drug_name |-> generic, total_reports |-> 0, top_reactions |-> <<>>,
          seriousness |-> EmptyDict, reporter_types |-> EmptyDict,
          patient_sex |-> EmptyDict, patient_age_groups |-> EmptyDict,
          sample_narratives |-> <<>>]

ProfileTaskReturns(key) ==
    /\ pool = "profile"
    /\ pcJ = "pool"
    /\ futures[key] = Running
    /\ \E v \in ProfileValues(key) :
         /\ futures' = [futures EXCEPT ![key] = Returned(v)]
         /\ results' = WorkerResults(results, key, v)
    /\ UNCHANGED <<pool, out, pcJ, notFan>>

ProfileTaskRaises(key) ==
    /\ pool = "profile"
    /\ pcJ = "pool"
    /\ futures[key] = Running
    /\ futures' = [futures EXCEPT ![key] = Raised]
    /\ UNCHANGED <<pool, results, out, pcJ, notFan>>

\* the body of the as_completed loop for one finished future
ProfileCollect(key) ==
    /\ pool = "profile"
    /\ pcJ = "pool"
    /\ Finished(futures[key])
    /\ key \notin DOMAIN results
    /\ results' = Put(results, key,
                      IF futures[key].state = "returned"
                        THEN futures[key].value
                        ELSE ProfileDefault(key, GenericName))
    /\ UNCHANGED <<pool, futures, out, pcJ, notFan>>

\* after the with block: the three sources of the returned profile (its
\* other fields are computed from these three)
ProfileReturn ==
    /\ pool = "profile"
    /\ pcJ = "pool"
    /\ JoinReady(futures, results)
    /\ out' = [label_data |-> Get(results, "labels", EmptyDict),
               faers_summary |-> Get(results, "faers", EmptyDict),
               ndc_metadata |-> Get(results, "ndc", EmptyDict)]
    /\ pcJ' = "done"
    /\ UNCHANGED <<pool, futures, results, notFan>>

\* pool.submit(fn) for every task, on entering the with block
InitPool(which, keys) ==
    /\ pool = which
    /\ futures = [k \in keys |-> Running]
    /\ results = EmptyDict
    /\ out = EmptyDict
    /\ pcJ = "pool"

NextProfile ==
    \/ \E key \in ProfileKeys : ProfileTaskReturns(key)
    \/ \E key \in ProfileKeys : ProfileTaskRaises(key)
    \/ \E key \in ProfileKeys : ProfileCollect(key)
    \/ ProfileReturn

NextFaers ==
    \/ \E key \in FaersKeys : FaersTaskReturns(key)
    \/ \E key \in FaersKeys : FaersTaskRaises(key)
    \/ \E key \in FaersKeys : FaersCollect(key)
    \/ FaersReturn

NextFan == NextProfile \/ NextFaers

InitProfile ==
    InitChunkIdle /\ InitResolveIdle /\ InitPool("profile", ProfileKeys) /\ InitEngineIdle
InitFaers ==
    InitChunkIdle /\ InitResolveIdle /\ InitPool("faers", FaersKeys) /\ InitEngineIdle
InitFanout == InitProfile \/ InitFaers

SpecProfile == InitProfile /\ [][NextProfile]_vars
\* every task ends (each request has its own timeout) and the caller's
\* loop goes on while a finished future is waiting
SpecProfileFair == SpecProfile /\ WF_vars(NextProfile)
SpecFaers == InitFaers /\ [][NextFaers]_vars
SpecFanout == InitFanout /\ [][NextFan]_vars

\* ------------------------------------------------------------------ C3
StrategyOrder == <<"exact", "drugs", "approx", "spell">>
\* the strategies one call of resolve_drug_name invoked, in order
HistoryAt(d) == LET AtDepth(h) == h.depth = d IN SelectSeq(history, AtDepth)

\* C3: every call of resolve_drug_name invokes its strategies in the order
\* exact, concept group, approximate, spelling: the i-th strategy it invokes
\* is the i-th of that order, and every strategy invoked before another one
\* returned no result (so nothing is invoked after the first success).
C3_StrictOrder ==
    \A d \in 0..(MaxDepth - 1) :
        LET h == HistoryAt(d) IN
        /\ Len(h) <= Len(StrategyOrder)
        /\ \A i \in DOMAIN h :
              /\ h[i].strategy = StrategyOrder[i]
              /\ (i < Len(h)) => ~h[i].found

\* a call that returned after its third strategy succeeded
C3_Witness ==
    /\ pcR = "done"
    /\ Len(HistoryAt(0)) = 3
    /\ HistoryAt(0)[3].found
    /\ returned.confidence = "approximate"

\* ------------------------------------------------------------------ C4
\* C4: whatever requests of the identifier service fail (a failed request
\* yields {}), resolve_drug_name never raises and returns its result dict.
C4_NeverRaises == pcR # "raised"

\* ------------------------------------------------------------------ C5
AllFourFailed ==
    LET h == HistoryAt(0) IN Len(h) = 4 /\ \A i \in DOMAIN h : ~h[i].found

\* C5: when all four strategies yield no result, the returned dict has
\* confidence "none", no primary identifier, and resolved_name equal to the
\* input with leading and trailing whitespace removed.
C5_NoneKeepsTrimmedInput ==
    (pcR = "done" /\ AllFourFailed) =>
        /\ returned.confidence = "none"
        /\ returned.rxcui = NoneCui
        /\ returned.resolved_name = Strip(returned.input)

\* ------------------------------------------------------------------ C6
\* C6: the call made for a spelling suggestion never itself makes a call
\* for a further suggestion: at most two frames of resolve_drug_name are
\* ever on the stack.
C6_DepthAtMostOne == Len(stack) <= 2

\* ------------------------------------------------------------------ C7
\* C7: a returned primary identifier is the first element of the returned
\* list of all related identifiers.
C7_PrimaryFirst ==
    (pcR = "done" /\ TruthyCui(returned.rxcui)) =>
        /\ returned.all_rxcuis # <<>>
        /\ returned.all_rxcuis[1] = returned.rxcui

\* ------------------------------------------------------------------ C29
\* C29: every result of resolve_drug_name with a confidence other than
\* "none" (exact, approximate, spelling_corrected) carries a primary
\* identifier; a spelling suggestion whose own resolution finds no
\* identifier does not give the confidence "spelling_corrected".
C29_ConfidenceImpliesIdentifier ==
    (pcR = "done" /\ returned.confidence # "none") => TruthyCui(returned.rxcui)

\* ------------------------------------------------------------------ C8
\* the source of the returned profile that holds the result of a task
Held(key) ==
    CASE key = "labels" -> out.label_data
      [] key = "faers" -> out.faers_summary
      [] key = "ndc" -> out.ndc_metadata

\* the default a failed source holds: the empty mapping for the label
\* fields and the product metadata, the empty summary for adverse events
C8_Default(key) ==
    IF key = "faers"
      THEN [drug_name |-> GenericName, total_reports |-> 0, top_reactions |-> <<>>,
            seriousness |-> EmptyDict, reporter_types |-> EmptyDict,
            patient_sex |-> EmptyDict, patient_age_groups |-> EmptyDict,
            sample_narratives |-> <<>>]
      ELSE EmptyDict

C8_Safety ==
    (pool = "profile" /\ pcJ = "done") =>
        \A key \in ProfileKeys :
            /\ futures[key].state \in {"returned", "raised"}
            /\ (futures[key].state = "returned") => Held(key) = futures[key].value
            /\ (futures[key].state = "raised") => Held(key) = C8_Default(key)

Outcome(key) ==
    IF futures[key].state = "returned" THEN futures[key].value
    ELSE IF pool = "profile" THEN ProfileDefault(key, GenericName) ELSE PyNone

C9_Safety ==
    /\ (pcJ = "done") =>
          /\ \A key \in DOMAIN futures : futures[key].state \in {"returned", "raised"}
          /\ results = [key \in DOMAIN futures |-> Outcome(key)]
          /\ (pool = "faers") => out = FaersMerge([key \in FaersKeys |-> Outcome(key)],
                                                  GenericName)
          /\ (pool = "profile") => \A key \in ProfileKeys : Held(key) = Outcome(key)
    /\ (pcJ = "pool") =>
          \A key \in DOMAIN futures :
              /\ (key \in DOMAIN results) => Finished(futures[key])
              /\ (futures[key] = Running) =>
                    ENABLED (ProfileTaskReturns(key) \/ FaersTaskReturns(key))

\* C9: in both fan-outs `results` is assigned only in steps of the joining
\* caller (never in the step of a worker task, which changes a future), the
\* caller merges only when every task has returned or raised, a task that
\* raised stops no other task, and the merged result is determined by the
\* outcomes of the tasks alone, whatever the order they finished in.
C9_CallerMergesAfterAll ==
    /\ []C9_Safety
    /\ [][(results' # results) => (futures' = futures /\ pcJ = "pool")]_vars

\* the seven sub-queries finished, some raised, and the summary was merged
C9_Witness ==
    /\ pool = "faers"
    /\ pcJ = "done"
    /\ futures["total"] = Returned(PyInt(120))
    /\ futures["reactions"].state = "raised"
    /\ futures["sex"].state = "raised"
    /\ futures["samples"].state = "returned"
    /\ out.sample_narratives # <<>>

\* ------------------------------------------------------------------ C10
TotalZeroOrFailed ==
    \/ futures["total"].state = "raised"
    \/ futures["total"] = Returned(PyInt(0))

\* C10: if the total-count sub-query yields 0 or fails, fetch_faers_summary
\* returns the empty summary (total 0, no reactions, empty breakdowns, no
\* narratives), whatever the other six sub-queries returned.
C10_ZeroTotalGivesEmpty ==
    (pool = "faers" /\ pcJ = "done" /\ TotalZeroOrFailed) =>
        /\ out.drug_name = GenericName
        /\ out.total_reports = 0
        /\ out.top_reactions = <<>>
        /\ out.seriousness = EmptyDict
        /\ out.reporter_types = EmptyDict
        /\ out.patient_sex = EmptyDict
        /\ out.patient_age_groups = EmptyDict
        /\ out.sample_narratives = <<>>

\* the total failed while the other sub-queries returned data
C10_Witness ==
    /\ pool = "faers"
    /\ pcJ = "done"
    /\ futures["total"].state = "raised"
    /\ futures["reactions"].state = "returned"
    /\ futures["reactions"].value.v # <<>>
    /\ futures["seriousness"].state = "returned"
    /\ futures["samples"].state = "returned"
    /\ futures["samples"].value.v # <<>>
    /\ out.top_reactions = <<>>

\* ================================================================== corpus
\* A cleaned text (clean_text collapses every run of whitespace to one blank
\* and strips the ends) is the sequence of its words. A word is described by
\* what the code looks at:
\*   id     the word itself            low    the word lower-cased
\*   len    its number of characters   toks   tokenize(word)
\*   stop   it ends with . ! or ?      digit  it contains a digit
\*   sk     its brackets, in order     part   0, or the number of characters
\*                                            kept of a word that was cut
\* a token: its letters and digits lower-cased, and how many they are
Tok(t, n) == [t |-> t, n |-> n, part |-> 0]
Word(id, low, n, toks, stop, digit, sk) ==
    [id |-> id, low |-> low, len |-> n, toks |-> toks, stop |-> stop,
     digit |-> digit, sk |-> sk, part |-> 0]
\* a word of n letters
Plain(id, n) == Word(id, id, n, <<Tok(id, n)>>, FALSE, FALSE, <<>>)

RECURSIVE SumLen(_)
SumLen(ws) == IF ws = <<>> THEN 0 ELSE Head(ws).len + SumLen(Tail(ws))
\* len(" ".join(words))
TextLen(ws) == IF ws = <<>> THEN 0 ELSE SumLen(ws) + Len(ws) - 1

\* ---- fixed_size_chunk as build_artifacts calls it
\* the marker of a call that never returns
Hung == <<[id |-> "hung"]>>

\* the while loop from cursor s. The cursor is the whole state of the loop,
\* so a loop that has not ended after len(words) iterations repeats a cursor
\* and runs forever.
RECURSIVE ChunkLoop(_, _, _, _, _)
ChunkLoop(ws, w, ov, s, fuel) ==
    IF s >= Len(ws) THEN <<>>
    ELSE LET end == ChunkEnd(Len(ws), s, w) IN
         IF end = Len(ws) THEN <<Slice(ws, s, end)>>
         ELSE IF fuel = 0 THEN <<Hung>>
         ELSE <<Slice(ws, s, end)>> \o ChunkLoop(ws, w, ov, NextStart(end, ov), fuel - 1)

fixed_size_chunk(ws, w, ov) == ChunkLoop(ws, w, ov, 0, Len(ws))
Hangs(cs) == cs # <<>> /\ Last(cs) = Hung

\* ---- records
\* A record is a JSON object. Its identifier keys (id, set_id, openfda) are
\* `meta`; its other keys, in the order of the object, are `fields`, each
\* with the text normalize_field_value makes of the value ("" for a value
\* that is no string and no list of strings).
Rec(meta, fields) == [meta |-> meta, fields |-> fields]
Field(key, text) == [key |-> key, text |-> text]

\* an identifier is a string, written as its pieces
DocD1 == <<"d1">>
RecordN(n) == <<"record_", n>>

\* `if v: return str(v)`: the identifier of a truthy value, else nothing
StrIfTruthy(v) ==
    IF v.py = "str" /\ v.v # <<>> THEN <<v.v>>
    ELSE IF v.py = "int" /\ v.v # 0 THEN << <<v.v>> >>
    ELSE <<>>
\* a key of the openfda sub-object: a non-empty list gives its first
\* element, a non-empty string itself
OpenfdaId(v) ==
    IF v.py = "list" /\ v.v # <<>> THEN <<v.v[1]>>
    ELSE IF v.py = "str" /\ v.v # <<>> THEN <<v.v>>
    ELSE <<>>

OpenfdaKeys == <<"spl_id", "spl_set_id", "brand_name", "product_ndc", "application_number">>

FallbackId(idx) == RecordN(idx + 1)

derive_doc_id(meta, idx) ==
    LET top == ConcatAll([i \in 1..2 |->
                   StrIfTruthy(Get(meta, <<"id", "set_id">>[i], PyNone))])
        openfda == OrElse(Get(meta, "openfda", PyNone), EmptyDict)
        sub == ConcatAll([i \in 1..Len(OpenfdaKeys) |->
                   OpenfdaId(Get(openfda, OpenfdaKeys[i], PyNone))])
    IN  IF top # <<>> THEN top[1]
        ELSE IF sub # <<>> THEN sub[1]
        ELSE FallbackId(idx)

EndsWithTable(key) == key \in {"dose_table"}

\* the (field, text) pairs of a record that pass the filters
RECURSIVE pick_text_fields(_, _, _, _)
pick_text_fields(fields, allowlist, blocklist, include_table_fields) ==
    IF fields = <<>> THEN <<>>
    ELSE LET f == Head(fields)
             rest == pick_text_fields(Tail(fields), allowlist, blocklist,
                                      include_table_fields)
             drop == \/ (Truthy(allowlist) /\ f.key \notin Range(allowlist.v))
                     \/ f.key \in blocklist
                     \/ (~include_table_fields /\ EndsWithTable(f.key))
                     \/ f.text = <<>>
         IN IF drop THEN rest ELSE <<f>> \o rest

TextChunk(chunk_id, doc_id, field, text) ==
    [chunk_id |-> chunk_id, doc_id |-> doc_id, field |-> field, text |-> text]

\* f"{doc_id}::{field}"
RecordChunkId(doc_id, field) == doc_id \o <<"::", field>>
\* f"{rc.chunk_id}::c{j+1}", j counted from 0
SubChunkId(chunk_id, j) == chunk_id \o <<"::", "c", j + 1>>

KeepText_any(text, min_chars) == TRUE
\* the negation of `if len(text) < min_chars: continue`
KeepText(text, min_chars) == ~(TextLen(text) < min_chars)

\* the chunks one record adds to record_chunks
RECURSIVE ChunksOf(_, _, _)
ChunksOf(doc_id, picked, min_chars) ==
    IF picked = <<>> THEN <<>>
    ELSE LET f == Head(picked) IN
         (IF KeepText(f.text, min_chars)
            THEN <<TextChunk(RecordChunkId(doc_id, f.key), doc_id, f.key, f.text)>>
            ELSE <<>>)
         \o ChunksOf(doc_id, Tail(picked), min_chars)

\* the sub-chunks one record chunk adds to sub_chunks
SubChunksOf(rc, windows) ==
    [j \in 1..Len(windows) |->
        TextChunk(SubChunkId(rc.chunk_id, j - 1), rc.doc_id, rc.field, windows[j])]

\* ---- what the caller and the document source can supply
MaxRecords == 2

W1 == Plain("a", 1)
W3 == Plain("abc", 3)
CorpusTexts == {<<>>, <<W1>>, <<W3, W1>>, <<W3, W1, W1>>, <<W1, W1, W1, W1>>}
CorpusMetas ==
    { [id |-> PyStr(DocD1)],
      [id |-> PyStr(<<>>), openfda |-> PyDict([brand_name |-> PyList(<<DocD1>>)])],
      [openfda |-> PyNone] }
CorpusFields ==
    {<<Field("warnings", t)>> : t \in CorpusTexts}
    \cup { <<Field("warnings", <<W3, W1>>), Field("dosage", <<W3, W1, W1>>)>>,
           <<Field("warnings", <<W3, W1>>), Field("dose_table", <<W3, W1>>)>> }
CorpusRecords == {Rec(m, f) : m \in CorpusMetas, f \in CorpusFields}

Config(min_chars, w, ov, use_st) ==
    [min_chars |-> min_chars, words_per_chunk |-> w, overlap |-> ov,
     field_allowlist |-> PyNone, field_blocklist |-> {"id", "set_id", "openfda"},
     include_table_fields |-> FALSE, use_st |-> use_st, st_installed |-> TRUE]

CorpusConfigs ==
    {Config(m, wo[1], wo[2], u) :
        m \in {3, 4}, wo \in {<<2, 0>>, <<2, 1>>, <<3, 1>>, <<2, 2>>}, u \in BOOLEAN}

\* what leaves _openfda_request instead of a result: the RuntimeError it
\* raises for an HTTP error, an unreachable host, a body that is no JSON and
\* an error object in the body; and what its try blocks do not catch (the
\* body is not UTF-8, the read times out)
HttpError(code, reason) ==
    [type |-> "RuntimeError", msg |-> <<"openFDA HTTP error ", code, ": ", reason>>,
     detail |-> <<code, reason>>]
UrlError(reason) ==
    [type |-> "RuntimeError", msg |-> <<"openFDA request failed: ", reason>>,
     detail |-> <<reason>>]
NotJson == [type |-> "RuntimeError", msg |-> <<"openFDA response was not valid JSON">>,
            detail |-> <<>>]
ApiError(m) == [type |-> "RuntimeError", msg |-> <<"openFDA API error: ", m>>,
                detail |-> <<m>>]
Uncaught(type) == [type |-> type, msg |-> <<>>, detail |-> <<>>]

RequestFailures ==
    { HttpError("404", "Not Found"), HttpError("500", "Internal Server Error"),
      UrlError("[Errno -2] Name or service not known"), NotJson,
      ApiError("search syntax error near field"),
      Uncaught("UnicodeDecodeError"), Uncaught("TimeoutError") }

\* the records the document source serves: build_artifacts on its own is
\* driven with short texts and small thresholds, the pipeline of
\* run_rag_query with the thresholds it passes
\* a run of n characters without a blank, of letters only
Run(n) == Plain("run", n)
\* the same, its last character a full stop
RunStop(n) == Word("run.", "run.", n, <<Tok("run", n - 1)>>, TRUE, FALSE, <<>>)
Dose == Plain("dose", 4)
Mg50 == Word("50mg", "50mg", 4, <<Tok("50mg", 4)>>, FALSE, TRUE, <<>>)
See == Word("[see", "[see", 4, <<Tok("see", 3)>>, FALSE, FALSE, <<"[">>)
WarningsRef ==
    Word("Warnings].", "warnings].", 10, <<Tok("warnings", 8)>>, TRUE, FALSE, <<"]">>)
NotWord == Word("Not", "not", 3, <<Tok("not", 3)>>, FALSE, FALSE, <<>>)

\* 39 characters: below min_chars
Text39 == <<Dose, Run(34)>>
\* 199 and 200 characters, one sentence that shares "dose" with the question
Text199 == <<Dose, RunStop(194)>>
Text200 == <<Dose, RunStop(195)>>
\* 200 characters, no word of the question and no digit
TextNoMatch == <<Plain("rash", 4), RunStop(195)>>
\* 201 characters with a cross-reference in brackets
TextSee == <<Dose, Run(180), See, WarningsRef>>
\* 201 characters, a sentence of the label that begins "Not enough evidence"
TextPhrase ==
    <<NotWord, Plain("enough", 6), Plain("evidence", 8), Plain("on", 2), Dose, RunStop(173)>>
\* 1232 characters: the excerpt ends inside "daily"
TextLong == <<Dose, Run(1190), Plain("daily", 5), RunStop(30)>>
\* seven sentences with a word of the question or a digit: the first two
\* differ behind their 60th character only
Stop(id, t, n) == Word(id, id, n, <<Tok(t, n - 1)>>, TRUE, FALSE, <<>>)
TextTwice ==
    <<Dose, Run(60), Stop("one.", "one", 4), Dose, Run(60), Stop("two.", "two", 4),
      Plain("the", 3), RunStop(30), Plain("is", 2), RunStop(30), Mg50, RunStop(30),
      Mg50, Dose, RunStop(30), Plain("what", 4), RunStop(30)>>

QueryTexts ==
    {Text39, Text199, Text200, TextNoMatch, TextSee, TextPhrase, TextLong, TextTwice}
QueryRecords ==
    {Rec([openfda |-> PyNone], <<Field("warnings", t)>>) : t \in QueryTexts}
Records == IF pcQ = "idle" THEN CorpusRecords ELSE QueryRecords

\* ---- the indices build_artifacts builds once both loops have ended
Bm25(n) == [py |-> "bm25", corpus_size |-> n]
Faiss(n) == [py |-> "faiss", ntotal |-> n]

embedder_type(c, texts_A) ==
    IF c.use_st /\ c.st_installed /\ texts_A # <<>> THEN "sentence_transformers"
    ELSE IF texts_A # <<>> THEN "tfidf"
    ELSE "none"

BuildIndex_always(kind, embedded, texts) ==
    IF kind = "bm25" THEN Bm25(Len(texts)) ELSE Faiss(Len(texts))
\* BM25Okapi(tokens) if tokens else None;
\* _build_faiss_ip(vecs) if vecs is not None and len(texts) else None
BuildIndex(kind, embedded, texts) ==
    IF kind = "bm25"
      THEN IF texts # <<>> THEN Bm25(Len(texts)) ELSE PyNone
      ELSE IF embedded /\ texts # <<>> THEN Faiss(Len(texts)) ELSE PyNone

Artifacts(c, n_records, rcs, scs) ==
    LET et == embedder_type(c, rcs) IN
    [record_chunks |-> rcs,
     sub_chunks |-> scs,
     bm25_A |-> BuildIndex("bm25", TRUE, rcs),
     bm25_B |-> BuildIndex("bm25", TRUE, scs),
     faiss_A |-> BuildIndex("faiss", et # "none", rcs),
     faiss_B |-> BuildIndex("faiss", et # "none" /\ scs # <<>>, scs),
     vectorizer |-> IF et = "tfidf" THEN PyStr("tfidf") ELSE PyNone,
     manifest |-> [counts |-> [records |-> n_records, record_chunks |-> Len(rcs),
                               sub_chunks |-> Len(scs)],
                   embedder |-> [type |-> et]]]

\* ---- build_artifacts
InitBuild(configs) ==
    /\ cfg \in configs
    /\ records_count = 0
    /\ record_chunks = <<>>
    /\ sub_chunks = <<>>
    /\ rc_i = 1
    /\ arts = EmptyDict
    /\ pcB = "fetch"

\* one iteration of `for rec in iter_openfda_records(...)`
FetchRecord ==
    /\ pcB = "fetch"
    /\ records_count < MaxRecords
    /\ \E rec \in Records :
         LET doc_id == derive_doc_id(rec.meta, records_count)
             picked == pick_text_fields(rec.fields, cfg.field_allowlist,
                                        cfg.field_blocklist, cfg.include_table_fields)
         IN record_chunks' = record_chunks \o ChunksOf(doc_id, picked, cfg.min_chars)
    /\ records_count' = records_count + 1
    /\ UNCHANGED <<cfg, sub_chunks, rc_i, arts, pcB, notCorpus>>

\* the iterator is exhausted
FetchEnd ==
    /\ pcB = "fetch"
    /\ pcB' = "sub"
    /\ UNCHANGED <<cfg, records_count, record_chunks, sub_chunks, rc_i, arts, notCorpus>>

\* a request of the iterator fails: the exception leaves build_artifacts
FetchRaises ==
    /\ pcB = "fetch"
    /\ \E e \in RequestFailures : arts' = e
    /\ pcB' = "raised"
    /\ UNCHANGED <<cfg, records_count, record_chunks, sub_chunks, rc_i, notCorpus>>

\* one iteration of `for rc in record_chunks`
SubChunk ==
    /\ pcB = "sub"
    /\ rc_i <= Len(record_chunks)
    /\ LET rc == record_chunks[rc_i]
           windows == fixed_size_chunk(rc.text, cfg.words_per_chunk, cfg.overlap)
       IN IF Hangs(windows)
            THEN /\ pcB' = "hung"
                 /\ UNCHANGED <<sub_chunks, rc_i>>
            ELSE /\ sub_chunks' = sub_chunks \o SubChunksOf(rc, windows)
                 /\ rc_i' = rc_i + 1
                 /\ pcB' = pcB
    /\ UNCHANGED <<cfg, records_count, record_chunks, arts, notCorpus>>

\* both loops have ended: build the indices and return
BuildReturn ==
    /\ pcB = "sub"
    /\ rc_i > Len(record_chunks)
    /\ arts' = Artifacts(cfg, records_count, record_chunks, sub_chunks)
    /\ pcB' = "done"
    /\ UNCHANGED <<cfg, records_count, record_chunks, sub_chunks, rc_i, notCorpus>>

NextCorpus == FetchRecord \/ FetchEnd \/ FetchRaises \/ SubChunk \/ BuildReturn

InitCorpus ==
    /\ InitChunkIdle /\ InitResolveIdle /\ InitFanIdle
    /\ InitBuild(CorpusConfigs)
    /\ InitQueryIdle /\ InitFuseIdle /\ InitDisparityIdle /\ InitIntakeIdle
SpecCorpus == InitCorpus /\ [][NextCorpus]_vars

\* ------------------------------------------------------------------ C11
UniqueKeys(cs) == \A i, j \in DOMAIN cs : (i # j) => cs[i].chunk_id # cs[j].chunk_id

\* C11: in the corpus build_artifacts returns, for any sequence of fetched
\* records, no two record chunks have the same chunk key and no two
\* sub-chunks have the same chunk key.
C11_UniqueChunkKeys ==
    (pcB = "done") => /\ UniqueKeys(arts.record_chunks)
                      /\ UniqueKeys(arts.sub_chunks)

\* ------------------------------------------------------------------ C12
AtLeastMin(cs) == \A i \in DOMAIN cs : TextLen(cs[i].text) >= cfg.min_chars

\* the claim as stated: the threshold holds in both tiers
C12_EveryChunkAtLeastMin ==
    (pcB = "done") => /\ AtLeastMin(arts.record_chunks)
                      /\ AtLeastMin(arts.sub_chunks)

\* the record chunk a sub-chunk was cut from
ParentsOf(sc) ==
    {i \in DOMAIN arts.record_chunks :
        /\ arts.record_chunks[i].doc_id = sc.doc_id
        /\ arts.record_chunks[i].field = sc.field}

\* C12 (amended): every record chunk of the returned corpus has text length
\* >= the configured minimum. A sub-chunk is the whole text of its record
\* chunk or a window of at least overlap + 1 words, hence of at least
\* 2 * overlap + 1 characters: it reaches the minimum whenever
\* 2 * overlap + 1 >= the minimum (as with the defaults 40 and 40), and is
\* never empty.
C12_RecordChunksAtLeastMin ==
    (pcB = "done") =>
        /\ AtLeastMin(arts.record_chunks)
        /\ \A j \in DOMAIN arts.sub_chunks :
              LET sc == arts.sub_chunks[j] IN
              /\ TextLen(sc.text) >= 1
              /\ \/ \E i \in ParentsOf(sc) : arts.record_chunks[i].text = sc.text
                 \/ /\ Len(sc.text) >= cfg.overlap + 1
                    /\ TextLen(sc.text) >= 2 * cfg.overlap + 1
              /\ (2 * cfg.overlap + 1 >= cfg.min_chars) => TextLen(sc.text) >= cfg.min_chars

\* a corpus with a field left out for its length and a record chunk cut into
\* several windows, the last one shorter than the others
C12_Witness ==
    /\ pcB = "done"
    /\ arts.manifest.counts.records = 2
    /\ Len(arts.record_chunks) = 1
    /\ Len(arts.sub_chunks) >= 2
    /\ 2 * cfg.overlap + 1 >= cfg.min_chars
    /\ Len(Last(arts.sub_chunks).text) < cfg.words_per_chunk

\* ================================================================== _fuse
\* A result list is the list of its items, best first: _fuse reads the rank
\* of an item and never its score (`for r, (_, it) in enumerate(...)`).
\* A score of the fused list is a fraction num/den with den > 0.
Frac(n, d) == [num |-> n, den |-> d]
FracLess(x, y) == x.num * y.den < y.num * x.den

\* cid = lambda it: getattr(it, "chunk_id", str(it))
cid(it) == it.chunk_id

\* {cid(it): r for r, (_, it) in enumerate(res, 1)}[key]: a later entry
\* of the comprehension overwrites an earlier one with the same key
RankOf(res, key) ==
    CHOOSE r \in DOMAIN res :
        /\ cid(res[r]) = key
        /\ \A q \in DOMAIN res : cid(res[q]) = key => q <= r

\* dr.get(key, len(dense_res) + 1)
RankOrPenalty(res, key) ==
    IF \E r \in DOMAIN res : cid(res[r]) = key THEN RankOf(res, key) ELSE Len(res) + 1

\* bucket.setdefault(cid(it), it) over dense_res + sparse_res: the first
\* item of every key, in the order the keys were first seen
RECURSIVE Bucket(_)
Bucket(its) ==
    IF its = <<>> THEN <<>>
    ELSE LET rest == Bucket(SubSeq(its, 1, Len(its) - 1)) IN
         IF \E i \in DOMAIN rest : cid(rest[i]) = cid(Last(its))
           THEN rest ELSE Append(rest, Last(its))

\* alpha / d + (1 - alpha) / s
FusedScore(a, d, s) == Frac(a.num * s + (a.den - a.num) * d, a.den * d * s)

\* list.sort(key=score, reverse=True): stable, so equal scores keep their order
RECURSIVE SortByScoreDesc(_)
SortByScoreDesc(l) ==
    IF l = <<>> THEN <<>>
    ELSE LET rest == SortByScoreDesc(SubSeq(l, 1, Len(l) - 1))
             x == Last(l)
             \* x goes behind everything that is not smaller than it
             before == {i \in DOMAIN rest : ~FracLess(rest[i].score, x.score)}
             pos == IF before = {} THEN 0 ELSE CHOOSE i \in before : \A j \in before : j <= i
         IN SubSeq(rest, 1, pos) \o <<x>> \o SubSeq(rest, pos + 1, Len(rest))

\* fused[:k]
Take(l, n) == SubSeq(l, 1, Min(n, Len(l)))

Fuse(dres, sres, a, n) ==
    LET bucket == Bucket(dres \o sres)
        scored == [i \in DOMAIN bucket |->
                     [score |-> FusedScore(a, RankOrPenalty(dres, cid(bucket[i])),
                                                  RankOrPenalty(sres, cid(bucket[i]))),
                      it |-> bucket[i]]]
    IN Take(SortByScoreDesc(scored), n)

\* ---- the result lists _fuse can be called with
MaxCorpus == 3

\* chunk i of a corpus: its document id is its own, or the one that several
\* records of the corpus share
CorpusChunk(i, doc_id) ==
    TextChunk(RecordChunkId(doc_id, "warnings"), doc_id, "warnings", <<Plain("w", 40 + i)>>)
FuseCorpora ==
    {[i \in 1..MaxCorpus |-> CorpusChunk(i, IF i \in S THEN DocD1 ELSE RecordN(i))] :
        S \in SUBSET (1..MaxCorpus)}

\* the lists without repetition over a set of items: a search returns an
\* item of the corpus at most once
InjSeqs(S) ==
    {s \in UNION {[1..m -> S] : m \in 0..Cardinality(S)} :
        \A i, j \in DOMAIN s : (i # j) => s[i] # s[j]}

Alphas == {Frac(1, 2), Frac(1, 4)}
DefaultK == 15

InitFuseCall ==
    /\ \E corpus \in FuseCorpora :
         /\ dense_res \in InjSeqs(Range(corpus))
         /\ sparse_res \in InjSeqs(Range(corpus))
    /\ alpha \in Alphas
    /\ fuse_k \in {1, DefaultK}
    /\ fused = <<>>
    /\ pcF = "call"

FuseCall ==
    /\ pcF = "call"
    /\ fused' = Fuse(dense_res, sparse_res, alpha, fuse_k)
    /\ pcF' = "done"
    /\ UNCHANGED <<dense_res, sparse_res, alpha, fuse_k, notFuse>>

NextFuse == FuseCall

InitFuse ==
    /\ InitChunkIdle /\ InitResolveIdle /\ InitFanIdle
    /\ InitCorpusIdle /\ InitQueryIdle /\ InitDisparityIdle /\ InitIntakeIdle
    /\ InitFuseCall
SpecFuse == InitFuse /\ [][NextFuse]_vars

\* ------------------------------------------------------------------ C14
\* C14: for any two result lists over the same corpus, if one item is first
\* in the dense list and first in the sparse list, then after _fuse with
\* alpha = 0.5 that item is first in the fused list.
C14_FirstInBothIsFirst ==
    (/\ pcF = "done"
     /\ alpha = Frac(1, 2)
     /\ dense_res # <<>>
     /\ sparse_res # <<>>
     /\ dense_res[1] = sparse_res[1])
    => (fused # <<>> /\ fused[1].it = dense_res[1])

\* ------------------------------------------------------------------ C21
\* the 1-based rank of an item in a result list, or the length of the list
\* plus one for an item that is not in it
OwnRank(res, it) ==
    IF \E i \in DOMAIN res : res[i] = it
      THEN CHOOSE i \in DOMAIN res : res[i] = it /\ \A j \in DOMAIN res : res[j] = it => i <= j
      ELSE Len(res) + 1
FracEq(x, y) == x.num * y.den = y.num * x.den
UnionItems == Range(dense_res \o sparse_res)

\* C21: _fuse gives each item of the union of the two lists the score
\* alpha / rank_dense + (1 - alpha) / rank_sparse, ranks counted from 1 and
\* an item absent from a list ranked at the length of that list plus one;
\* the output is ordered by score, best first, holds each chunk key at most
\* once, holds every item of the union unless it is cut, and is cut to k.
C21_FusedScores ==
    (pcF = "done") =>
        /\ Len(fused) = Min(fuse_k, Cardinality(UnionItems))
        /\ \A i \in DOMAIN fused :
              /\ fused[i].it \in UnionItems
              /\ FracEq(fused[i].score,
                        FusedScore(alpha, OwnRank(dense_res, fused[i].it),
                                          OwnRank(sparse_res, fused[i].it)))
        /\ \A i, j \in DOMAIN fused :
              i < j => /\ ~FracLess(fused[i].score, fused[j].score)
                       /\ cid(fused[i].it) # cid(fused[j].it)

\* ------------------------------------------------------------------ C30
\* C30: when the dense side is empty, fusion with alpha = 0.5 and a cut no
\* shorter than the sparse list returns the sparse list in its order.
C30_EmptyDenseKeepsSparse ==
    (/\ pcF = "done"
     /\ alpha = Frac(1, 2)
     /\ dense_res = <<>>
     /\ sparse_res # <<>>
     /\ fuse_k >= Len(sparse_res))
    => [i \in DOMAIN fused |-> fused[i].it] = sparse_res

\* ================================================================== disparity
\* Texts are sequences of characters here, so that lower-casing, the removal
\* of characters and the substring test are computed.
UpperLetters ==
    <<"A", "B", "C", "D", "E", "F", "G", "H", "I", "J", "K", "L", "M",
      "N", "O", "P", "Q", "R", "S", "T", "U", "V", "W", "X", "Y", "Z">>
LowerLetters ==
    <<"a", "b", "c", "d", "e", "f", "g", "h", "i", "j", "k", "l", "m",
      "n", "o", "p", "q", "r", "s", "t", "u", "v", "w", "x", "y", "z">>
LowerChar(c) ==
    IF \E i \in DOMAIN UpperLetters : UpperLetters[i] = c
      THEN LowerLetters[CHOOSE i \in DOMAIN UpperLetters : UpperLetters[i] = c]
      ELSE c
\* str.lower()
Lower(s) == [i \in DOMAIN s |-> LowerChar(s[i])]

RECURSIVE Filter(_, _)
Filter(s, keep) ==
    IF s = <<>> THEN <<>>
    ELSE (IF Head(s) \in keep THEN <<Head(s)>> ELSE <<>>) \o Filter(Tail(s), keep)

\* re.sub(r"[^a-z ]", "", term.lower()).strip()
normalize_term(term) == Strip(Filter(Lower(term), Range(LowerLetters) \cup {" "}))

\* str.split() of a text whose only whitespace is the blank
RECURSIVE SplitFrom(_, _)
SplitFrom(s, word) ==
    IF s = <<>> THEN (IF word = <<>> THEN <<>> ELSE <<word>>)
    ELSE IF Head(s) = " "
           THEN (IF word = <<>> THEN <<>> ELSE <<word>>) \o SplitFrom(Tail(s), <<>>)
           ELSE SplitFrom(Tail(s), Append(word, Head(s)))
Split(s) == SplitFrom(s, <<>>)

\* `w in text`
IsSubstring(w, text) ==
    \E i \in 0..(Len(text) - Len(w)) : SubSeq(text, i + 1, i + Len(w)) = w

LongEnough_ge3(w) == Len(w) >= 3
\* `if len(w) > 3`
LongEnough(w) == Len(w) > 3

\* any(w in label_lower for w in words if len(w) > 3)
Found(term, label_lower) ==
    \E w \in Range(Split(normalize_term(term))) : LongEnough(w) /\ IsSubstring(w, label_lower)

\* round(a / b) to an integer, a tie going to the even neighbour
RoundDiv(a, b) ==
    LET q == a \div b
        r == a % b
    IN IF 2 * r < b THEN q
       ELSE IF 2 * r > b THEN q + 1
       ELSE IF q % 2 = 0 THEN q ELSE q + 1

RECURSIVE SumCounts(_)
SumCounts(rs) == IF rs = <<>> THEN 0 ELSE Get(Head(rs), "count", 0) + SumCounts(Tail(rs))

\* sorted(l), ascending
RECURSIVE SortAsc(_)
SortAsc(l) ==
    IF l = <<>> THEN <<>>
    ELSE LET rest == SortAsc(Tail(l))
             smaller == {i \in DOMAIN rest : rest[i] < Head(l)}
         IN SubSeq(rest, 1, Cardinality(smaller)) \o <<Head(l)>>
            \o SubSeq(rest, Cardinality(smaller) + 1, Len(rest))

\* the elements of l at the positions in S, in the order of l
RECURSIVE SubseqAt(_, _)
SubseqAt(l, S) ==
    IF l = <<>> THEN <<>>
    ELSE LET rest == SubseqAt(SubSeq(l, 1, Len(l) - 1), S) IN
         IF Len(l) \in S THEN Append(rest, Last(l)) ELSE rest

ZeroReport ==
    [reactions_in_faers_not_on_label |-> <<>>,
     reactions_on_label_with_high_faers |-> <<>>,
     reactions_on_label_with_low_faers |-> <<>>,
     disparity_score |-> 0]

EmptyInput_and(label, reactions) == label = <<>> /\ reactions = <<>>
\* `if not label_adverse_reactions or not faers_top_reactions`
EmptyInput(label, reactions) == label = <<>> \/ reactions = <<>>

\* percentages are in tenths (round(pct, 1)), the score in hundredths
\* (round(x, 2))
compute_disparity(label, reactions) ==
    IF EmptyInput(label, reactions) THEN ZeroReport
    ELSE
    LET label_lower == normalize_term(label)
        total_faers == IF SumCounts(reactions) # 0 THEN SumCounts(reactions) ELSE 1
        Entry(r) == [term |-> Get(r, "term", <<>>),
                     faers_count |-> Get(r, "count", 0),
                     faers_pct |-> RoundDiv(Get(r, "count", 0) * 1000, total_faers)]
        entries == [i \in DOMAIN reactions |-> Entry(reactions[i])]
        found == {i \in DOMAIN entries : Found(entries[i].term, label_lower)}
        on_label_high_faers == SubseqAt(entries, found)
        in_faers_not_label == SubseqAt(entries, DOMAIN entries \ found)
        total_top == IF Len(reactions) # 0 THEN Len(reactions) ELSE 1
        counts == SortAsc([i \in DOMAIN on_label_high_faers |->
                              on_label_high_faers[i].faers_count])
        median_count == counts[(Len(on_label_high_faers) \div 2) + 1]
        low == {i \in DOMAIN on_label_high_faers :
                   on_label_high_faers[i].faers_count * 10 < median_count * 3}
    IN [reactions_in_faers_not_on_label |-> in_faers_not_label,
        reactions_on_label_with_high_faers |-> on_label_high_faers,
        reactions_on_label_with_low_faers |->
            IF on_label_high_faers # <<>> THEN SubseqAt(on_label_high_faers, low) ELSE <<>>,
        disparity_score |-> RoundDiv(Len(in_faers_not_label) * 100, total_top)]

\* ---- what the caller can supply
MaxReactions == 3

LabelExample ==
    <<"C", "o", "m", "m", "o", "n", " ", "r", "e", "a", "c", "t", "i", "o", "n", "s", " ",
    "i", "n", "c", "l", "u", "d", "e", " ", "n", "a", "u", "s", "e", "a", " ", "a", "n", "d",
    " ", "h", "e", "a", "d", "a", "c", "h", "e", ".">>
LabelBlank == <<" ">>
LabelLines ==
    <<"R", "a", "s", "h", ";", "\n", "P", "a", "i", "n", " ", "i", "n", " ", "t", "h", "e",
    " ", "f", "l", "u", " ", "s", "e", "a", "s", "o", "n">>
Labels == {<<>>, LabelExample, LabelBlank, LabelLines}

TermNausea == <<"N", "a", "u", "s", "e", "a">>
TermDizziness == <<"D", "i", "z", "z", "i", "n", "e", "s", "s">>
TermFlu == <<"F", "l", "u">>
TermPainUpper ==
    <<"A", "B", "D", "O", "M", "I", "N", "A", "L", " ", "P", "A", "I", "N", " ", "U", "P",
    "P", "E", "R">>
TermHeadAche == <<"H", "e", "a", "d", " ", "a", "c", "h", "e">>
Terms == {TermNausea, TermDizziness, TermFlu, TermPainUpper, TermHeadAche}

Reactions ==
    {[term |-> t, count |-> 80] : t \in Terms}
    \cup { [term |-> TermDizziness, count |-> 20], [term |-> TermHeadAche, count |-> 20],
           [term |-> TermNausea, count |-> 0], [count |-> 5] }

InitDisparityCall ==
    /\ label_text \in Labels
    /\ top_reactions \in UNION {[1..n -> Reactions] : n \in 0..MaxReactions}
    /\ report = EmptyDict
    /\ pcD = "call"

DisparityCall ==
    /\ pcD = "call"
    /\ report' = compute_disparity(label_text, top_reactions)
    /\ pcD' = "done"
    /\ UNCHANGED <<label_text, top_reactions, notDisparity>>

NextDisparity == DisparityCall

InitDisparity ==
    /\ InitChunkIdle /\ InitResolveIdle /\ InitFanIdle
    /\ InitCorpusIdle /\ InitQueryIdle /\ InitFuseIdle /\ InitIntakeIdle
    /\ InitDisparityCall
SpecDisparity == InitDisparity /\ [][NextDisparity]_vars

\* ------------------------------------------------------------------ C18
\* a reaction term is on the label: one of its normalized words of more than
\* 3 characters occurs in the normalized label text
OnLabel(term) ==
    \E w \in Range(Split(normalize_term(term))) :
        Len(w) > 3 /\ IsSubstring(w, normalize_term(label_text))

TermOf(r) == IF "term" \in DOMAIN r THEN r.term ELSE <<>>
Occurrences(l, t) == Cardinality({i \in DOMAIN l : l[i].term = t})

\* C18: for a non-empty label text and a non-empty reaction list,
\* compute_disparity puts every reaction in exactly one of the two lists,
\* `confirmed` (on label) iff some normalized word of its term longer than 3
\* characters is a substring of the normalized label text, `emerging`
\* otherwise, and disparity_score is (number of emerging) / (number of
\* reactions) rounded to 2 decimals; the label "Common reactions include
\* nausea and headache." with Nausea:80, Dizziness:20 gives Nausea
\* confirmed, Dizziness emerging and the score 0.5.
C18_ConfirmedOrEmerging ==
    (pcD = "done" /\ label_text # <<>> /\ top_reactions # <<>>) =>
        LET confirmed == report.reactions_on_label_with_high_faers
            emerging == report.reactions_in_faers_not_on_label
            n == Len(top_reactions)
        IN /\ Len(confirmed) + Len(emerging) = n
           /\ \A i \in DOMAIN top_reactions :
                 LET t == TermOf(top_reactions[i])
                     given == Cardinality({j \in DOMAIN top_reactions :
                                              TermOf(top_reactions[j]) = t})
                 IN IF OnLabel(t)
                      THEN Occurrences(confirmed, t) = given /\ Occurrences(emerging, t) = 0
                      ELSE Occurrences(emerging, t) = given /\ Occurrences(confirmed, t) = 0
           \* the score, in hundredths, is the hundredth nearest to emerging / n
           /\ 2 * (report.disparity_score * n - 100 * Len(emerging)) <= n
           /\ 2 * (100 * Len(emerging) - report.disparity_score * n) <= n
           /\ (/\ label_text = LabelExample
               /\ top_reactions = <<[term |-> TermNausea, count |-> 80],
                                    [term |-> TermDizziness, count |-> 20]>>)
              => /\ [i \in DOMAIN confirmed |-> confirmed[i].term] = <<TermNausea>>
                 /\ [i \in DOMAIN emerging |-> emerging[i].term] = <<TermDizziness>>
                 /\ report.disparity_score = 50

\* a term of three letters that occurs in the label is emerging, next to a
\* confirmed one
C18_Witness ==
    /\ pcD = "done"
    /\ label_text = LabelLines
    /\ top_reactions = <<[term |-> TermFlu, count |-> 80],
                         [term |-> TermPainUpper, count |-> 80],
                         [term |-> TermDizziness, count |-> 20]>>
    /\ Len(report.reactions_on_label_with_high_faers) = 1
    /\ Len(report.reactions_in_faers_not_on_label) = 2
    /\ report.disparity_score = 67

\* ------------------------------------------------------------------ C19
\* C19: if label_text is empty or top_reactions is empty, compute_disparity
\* returns the zero report, all three lists empty and disparity_score 0.0,
\* whatever the other argument is.
C19_EmptyInputZeroReport ==
    (pcD = "done" /\ (label_text = <<>> \/ top_reactions = <<>>)) =>
        /\ report.reactions_in_faers_not_on_label = <<>>
        /\ report.reactions_on_label_with_high_faers = <<>>
        /\ report.reactions_on_label_with_low_faers = <<>>
        /\ report.disparity_score = 0

\* an empty label with reactions that a non-empty label would classify
C19_Witness ==
    /\ pcD = "done"
    /\ label_text = <<>>
    /\ Len(top_reactions) >= 2
    /\ report.disparity_score = 0

\* ================================================================== pipeline
\* ---- texts as run_rag_query handles them
\* the first m characters of a word of letters (0 < m < len): the letters
\* kept are one token, and the punctuation that ended the word is gone
CutWord(w, m) ==
    [w EXCEPT !.len = m, !.part = m, !.stop = FALSE,
              !.toks = <<[t |-> w.toks[1].t, n |-> m, part |-> m]>>]

\* text[:n] of a cleaned text: the words kept, and whether the last
\* character kept is the blank behind the last of them
RECURSIVE Cut(_, _)
Cut(ws, n) ==
    IF ws = <<>> \/ n = 0 THEN [ws |-> <<>>, trail |-> 0]
    ELSE LET w == Head(ws) IN
         IF w.len > n THEN [ws |-> <<CutWord(w, n)>>, trail |-> 0]
         ELSE IF Tail(ws) = <<>> \/ w.len = n THEN [ws |-> <<w>>, trail |-> 0]
         ELSE IF w.len + 1 = n THEN [ws |-> <<w>>, trail |-> 1]
         ELSE LET rest == Cut(Tail(ws), n - w.len - 1) IN
              [ws |-> <<w>> \o rest.ws, trail |-> rest.trail]

ExcerptChars == 1200

\* the evidence record of a retrieved chunk
Evidence(it) ==
    [cite |-> [cite |-> it.chunk_id],
     content |-> Cut(it.text, ExcerptChars),
     doc_id |-> it.doc_id,
     field |-> it.field]

\* ---- _fallback_answer
\* An answer is a sequence of items: words (a blank between two of them),
\* citations [cite |-> chunk key], written "[key]", and blank lines [nl |-> 2].
IsWord(x) == "id" \in DOMAIN x
BlankLine == [nl |-> 2]
SentinelAnswer ==
    <<NotWord, Plain("enough", 6), Plain("evidence", 8), Plain("in", 2),
      Plain("the", 3), Plain("retrieved", 9),
      Word("context.", "context.", 8, <<Tok("context", 7)>>, TRUE, FALSE, <<>>)>>

\* len((e.get("content") or "").strip())
StrippedLen(content) == TextLen(content.ws)
RECURSIVE TotalChars(_)
TotalChars(ev) ==
    IF ev = <<>> THEN 0 ELSE StrippedLen(Head(ev).content) + TotalChars(Tail(ev))

MinEvidenceChars == 200
MinSentenceChars == 30
KeyChars == 60
MaxPicked == 5
DigitBonus == 2

\* re.split(r"(?<=[.!?])\s+|\n+", content): a sentence ends behind a word
\* that ends with . ! or ?
RECURSIVE SentencesFrom(_, _)
SentencesFrom(ws, cur) ==
    IF ws = <<>> THEN (IF cur = <<>> THEN <<>> ELSE <<cur>>)
    ELSE IF Head(ws).stop
           THEN <<Append(cur, Head(ws))>> \o SentencesFrom(Tail(ws), <<>>)
           ELSE SentencesFrom(Tail(ws), Append(cur, Head(ws)))
Sentences(content) == SentencesFrom(content.ws, <<>>)

\* tokenize(text)
tokenize(ws) == ConcatAll([i \in DOMAIN ws |-> ws[i].toks])

\* set(tokenize(text))
TokSet(ws) == Range(tokenize(ws))

SentenceScore(q_tok, sent) ==
    Cardinality(q_tok \cap TokSet(sent))
    + (IF \E i \in DOMAIN sent : sent[i].digit THEN DigitBonus ELSE 0)

\* the candidates of one evidence item
CandsOf(q_tok, e) ==
    LET sents == Sentences(e.content)
        long == {i \in DOMAIN sents : ~(TextLen(sents[i]) < MinSentenceChars)}
        kept == SubseqAt(sents, long)
    IN [i \in DOMAIN kept |->
          [score |-> Frac(SentenceScore(q_tok, kept[i]), 1), sent |-> kept[i],
           cite |-> e.cite]]

\* sent[:60].lower()
SentenceKey(sent) ==
    LET c == Cut(sent, KeyChars) IN
    [ws |-> [i \in DOMAIN c.ws |-> [low |-> c.ws[i].low, len |-> c.ws[i].len]],
     trail |-> c.trail]

RECURSIVE Pick_all(_, _, _)
Pick_all(cands, seen, picked) ==
    IF cands = <<>> THEN picked
    ELSE LET c == Head(cands) IN
         IF c.score.num <= 0 THEN picked
         ELSE IF Len(picked) + 1 >= MaxPicked
                THEN Append(picked, c.sent \o <<c.cite>>)
                ELSE Pick_all(Tail(cands), seen, Append(picked, c.sent \o <<c.cite>>))
\* the loop over the sorted candidates
RECURSIVE Pick(_, _, _)
Pick(cands, seen, picked) ==
    IF cands = <<>> THEN picked
    ELSE LET c == Head(cands)
             key == SentenceKey(c.sent)
         IN IF c.score.num <= 0 THEN picked
            ELSE IF key \in seen THEN Pick(Tail(cands), seen, picked)
            ELSE IF Len(picked) + 1 >= MaxPicked
                   THEN Append(picked, c.sent \o <<c.cite>>)
                   ELSE Pick(Tail(cands), seen \cup {key}, Append(picked, c.sent \o <<c.cite>>))

\* "\n\n".join(picked)
RECURSIVE JoinLines(_)
JoinLines(ls) ==
    IF ls = <<>> THEN <<>>
    ELSE IF Len(ls) = 1 THEN ls[1]
    ELSE ls[1] \o <<BlankLine>> \o JoinLines(Tail(ls))

TooShort_never(ev) == FALSE
\* `if not evidence` and `if total < 200`
TooShort(ev) == ev = <<>> \/ TotalChars(ev) < MinEvidenceChars

fallback_answer(question, ev) ==
    IF TooShort(ev) THEN SentinelAnswer
    ELSE LET q_tok == TokSet(question)
             cands == ConcatAll([i \in DOMAIN ev |-> CandsOf(q_tok, ev[i])])
             picked == Pick(SortByScoreDesc(cands), {}, <<>>)
         IN IF picked = <<>> THEN SentinelAnswer ELSE JoinLines(picked)

\* ---- _confidence
\* the brackets and line ends of an answer, in order
SkeletonOf(x) ==
    IF IsWord(x) THEN x.sk
    ELSE IF "cite" \in DOMAIN x THEN <<"[", "]">>
    ELSE IF "nl" \in DOMAIN x THEN <<"\n">>
    ELSE <<>>
Skeleton(ans) == ConcatAll([i \in DOMAIN ans |-> SkeletonOf(ans[i])])

\* len(re.findall(r"\[.*?\]", answer)): a match runs from a "[" to the
\* next "]" of the same line
RECURSIVE CountCites(_, _)
CountCites(sk, open) ==
    IF sk = <<>> THEN 0
    ELSE IF Head(sk) = "[" THEN CountCites(Tail(sk), TRUE)
    ELSE IF Head(sk) = "]" THEN (IF open THEN 1 ELSE 0) + CountCites(Tail(sk), FALSE)
    ELSE CountCites(Tail(sk), FALSE)

HasPhrase_equal(ans) == ans = SentinelAnswer
\* "Not enough evidence" in answer: three words in a row, the third one
\* possibly with more behind its last letter
HasPhrase(ans) ==
    \E i \in 1..(Len(ans) - 2) :
        /\ IsWord(ans[i]) /\ IsWord(ans[i + 1]) /\ IsWord(ans[i + 2])
        /\ ans[i].id = "Not" /\ ans[i].part = 0
        /\ ans[i + 1].id = "enough" /\ ans[i + 1].part = 0
        /\ ans[i + 2].id \in {"evidence", "evidence."} /\ ans[i + 2].part = 0

BaseConfidence == 30
PerEvidence == 8
PerCite == 4

\* in hundredths: round(min(1.0, 0.30 + 0.08 * n + 0.04 * cites), 2)
confidence(ev, ans) ==
    IF HasPhrase(ans) THEN 0
    ELSE Min(100, BaseConfidence + PerEvidence * Len(ev)
                  + PerCite * CountCites(Skeleton(ans), FALSE))


\* ---- what the caller and the services can supply
MaxTerms == 8
\* build_openfda_query(prompt, fields): the terms, or the groups, of the search
build_openfda_query(prompt, fields) ==
    LET toks == tokenize(prompt)
        terms == Take(SubseqAt(toks, {i \in DOMAIN toks : toks[i].n > 2}), MaxTerms)
    IN IF terms = <<>> THEN <<"_exists_:openfda">>
       ELSE IF ~Truthy(fields) THEN [i \in DOMAIN terms |-> terms[i].t]
       ELSE [i \in DOMAIN terms |-> [term |-> terms[i].t, fields |-> fields.v]]

FIELD_ALLOWLIST == PyNone
FIELD_BLOCKLIST ==
    {"spl_product_data_elements", "spl_indexing_data_elements", "effective_time",
     "set_id", "id", "version", "openfda", "package_label_principal_display_panel"}

\* the arguments run_rag_query passes to build_artifacts, and the defaults
\* of those it leaves out
EngineConfig ==
    [min_chars |-> 40, words_per_chunk |-> 250, overlap |-> 40,
     field_allowlist |-> FIELD_ALLOWLIST, field_blocklist |-> FIELD_BLOCKLIST,
     include_table_fields |-> FALSE, use_st |-> FALSE, st_installed |-> FALSE]

\* "What is the dose?"
Question ==
    <<Word("What", "what", 4, <<Tok("what", 4)>>, FALSE, FALSE, <<>>), Plain("is", 2),
      Plain("the", 3), Word("dose?", "dose?", 5, <<Tok("dose", 4)>>, TRUE, FALSE, <<>>)>>

Requests ==
    {[query |-> Question, gemini_key |-> g, method |-> m, top_k |-> tr[1],
      use_rerank |-> tr[2]] :
        g \in {"", "key"}, m \in {"dense", "sparse", "hybrid"},
        tr \in {<<7, FALSE>>, <<1, FALSE>>, <<1, TRUE>>}}

\* what generate_content gives back: it raises, or gives no response, or a
\* response whose text has `lead` blanks, then `body`, then `trail` blanks
Response(kind, lead, body, trail) ==
    [kind |-> kind, lead |-> lead, body |-> body, trail |-> trail]
Cited ==
    <<Dose, RunStop(20), [cite |-> RecordChunkId(RecordN(1), "warnings")]>>
Uncited == <<Dose, RunStop(20)>>
Insufficient ==
    <<NotWord, Plain("enough", 6), Plain("evidence", 8), Plain("on", 2),
      Word("dosing.", "dosing.", 7, <<Tok("dosing", 6)>>, TRUE, FALSE, <<>>)>>
\* an answer that cites eighteen times
ManyCites == [i \in 1..18 |-> [cite |-> RecordChunkId(RecordN(1), "warnings")]]
GeminiResponses ==
    { Response("raises", 0, <<>>, 0), Response("none", 0, <<>>, 0),
      Response("text", 0, <<>>, 0), Response("text", 1, <<>>, 0),
      Response("text", 0, Cited, 1), Response("text", 0, Uncited, 0),
      Response("text", 0, SentinelAnswer, 0), Response("text", 0, Insufficient, 0),
      Response("text", 0, ManyCites, 0) }

\* ---- _dense, _sparse
PoolFloor == 20
PoolFactor == 3

PoolSize_claimed(top_k) == Max(top_k, PoolFloor)
\* pool = max(20, top_k * 3)
PoolSize(top_k) == Max(PoolFloor, top_k * PoolFactor)

\* a search ranks the chunks of the corpus by a score of the index; all
\* orders are taken, and the best k are returned
Rankings(corpus, n) ==
    {[i \in DOMAIN p |-> corpus[p[i]]] :
        p \in {q \in InjSeqs(DOMAIN corpus) : Len(q) = Min(n, Len(corpus))}}

\* _embed_query gives a vector
CanEmbed(e_type, vec) ==
    e_type = "sentence_transformers" \/ (e_type = "tfidf" /\ vec # PyNone)

DenseResults(index, corpus, e_type, vec, n) ==
    IF index = PyNone \/ corpus = <<>> THEN {<<>>}
    ELSE IF ~CanEmbed(e_type, vec) THEN {<<>>}
    ELSE Rankings(corpus, Min(n, index.ntotal))

SparseResults(bm25, corpus, n) ==
    IF bm25 = PyNone \/ corpus = <<>> THEN {<<>>}
    ELSE Rankings(corpus, n)

\* ---- _call_gemini: `if resp and resp.text: return resp.text.strip()`,
\* and None for the rest and for an exception
TextOf(r) == r.lead + Len(r.body) + r.trail
call_gemini(r) ==
    IF r.kind = "text" /\ TextOf(r) > 0 THEN PyStr(r.body) ELSE PyNone

\* ---- _build_prompt
build_prompt(question, ev) ==
    [evidence |-> [i \in DOMAIN ev |-> [cite |-> ev[i].cite, content |-> ev[i].content]],
     question |-> question]

\* ---- the except branch
InMessage(msg, piece) == \E i \in DOMAIN msg : msg[i] = piece
ErrorPrefix ==
    <<Plain("Error", 5), Plain("fetching", 8), Plain("data", 4), Plain("from", 4),
      Plain("openFDA:", 8)>>
err_answer(exc) ==
    IF InMessage(exc.msg, "404") \/ InMessage(exc.msg, "Not Found")
      THEN SentinelAnswer
      ELSE ErrorPrefix \o <<[exc |-> exc.msg]>>

ErrorBundle(r, exc) ==
    [answer |-> err_answer(exc), evidence |-> <<>>, confidence |-> 0, num_records |-> 0,
     search_query |-> build_openfda_query(r.query, FIELD_ALLOWLIST), prompt |-> <<>>,
     llm_used |-> FALSE, method |-> r.method]

\* ---- run_rag_query
InitCall ==
    /\ req \in Requests
    /\ pool_size = 0
    /\ items = <<>>
    /\ scorer = "off"
    /\ evidence = <<>>
    /\ resp = EmptyDict
    /\ answer = PyNone
    /\ llm_used = FALSE
    /\ bundle = EmptyDict
    /\ pcQ = "build"

\* build_artifacts raised a RuntimeError: the except branch returns
BuildError ==
    /\ pcQ = "build" /\ pcB = "raised"
    /\ arts.type = "RuntimeError"
    /\ bundle' = ErrorBundle(req, arts)
    /\ pcQ' = "done"
    /\ UNCHANGED <<req, pool_size, scorer, items, evidence, resp, answer, llm_used, notQuery>>

\* build_artifacts raised something else: it leaves run_rag_query
BuildCrash ==
    /\ pcQ = "build" /\ pcB = "raised"
    /\ arts.type # "RuntimeError"
    /\ bundle' = arts
    /\ pcQ' = "raised"
    /\ UNCHANGED <<req, pool_size, scorer, items, evidence, resp, answer, llm_used, notQuery>>

\* step 3
Retrieve ==
    /\ pcQ = "build" /\ pcB = "done"
    /\ LET corpus == arts.record_chunks
           e_type == arts.manifest.embedder.type
           fetch_k == PoolSize(req.top_k)
           dense == DenseResults(arts.faiss_A, corpus, e_type, arts.vectorizer, fetch_k)
           sparse == SparseResults(arts.bm25_A, corpus, fetch_k)
       IN IF req.method = "dense" THEN items' \in dense
          ELSE IF req.method = "sparse" THEN items' \in sparse
          ELSE \E d \in dense, s \in sparse :
                  LET f == Fuse(d, s, Frac(1, 2), fetch_k) IN
                  items' = [i \in DOMAIN f |-> f[i].it]
    /\ pool_size' = PoolSize(req.top_k)
    /\ pcQ' = "rerank"
    /\ UNCHANGED <<req, scorer, evidence, resp, answer, llm_used, bundle, notQuery>>

EvidencePack(its) == [i \in DOMAIN its |-> Evidence(its[i])]

\* steps 4 and 5 without a rerank
NoRerank ==
    /\ pcQ = "rerank"
    /\ ~(req.use_rerank /\ items # <<>>)
    /\ items' = Take(items, req.top_k)
    /\ evidence' = EvidencePack(items')
    /\ pcQ' = "generate"
    /\ UNCHANGED <<req, pool_size, scorer, resp, answer, llm_used, bundle, notQuery>>

\* ---- _try_rerank
RerankScores == 0..2
\* what the pairwise scorer can do with n pairs: fail to load, fail to
\* score, or give n scores
ScorerOutcomes(n) ==
    {[kind |-> "load_failed"], [kind |-> "predict_failed"]}
    \cup {[kind |-> "ok", scores |-> sc] : sc \in [1..n -> RerankScores]}

try_rerank_uncut(its, top_k, o) ==
    IF o.kind = "ok"
      THEN LET ranked == SortByScoreDesc([i \in DOMAIN its |->
                             [score |-> Frac(o.scores[i], 1), it |-> its[i]]])
           IN Take([i \in DOMAIN ranked |-> ranked[i].it], top_k)
      ELSE its
\* sorted(zip(scores, items), key=score, reverse=True)[:top_k], and
\* list(items)[:top_k] behind `except Exception`
try_rerank(its, top_k, o) ==
    IF o.kind = "ok"
      THEN LET ranked == SortByScoreDesc([i \in DOMAIN its |->
                             [score |-> Frac(o.scores[i], 1), it |-> its[i]]])
           IN Take([i \in DOMAIN ranked |-> ranked[i].it], top_k)
      ELSE Take(its, top_k)

\* steps 4 and 5 with _try_rerank
Rerank ==
    /\ pcQ = "rerank"
    /\ req.use_rerank /\ items # <<>>
    /\ \E o \in ScorerOutcomes(Len(items)) :
          /\ items' = try_rerank(items, req.top_k, o)
          /\ scorer' = o.kind
    /\ evidence' = EvidencePack(items')
    /\ pcQ' = "generate"
    /\ UNCHANGED <<req, pool_size, resp, answer, llm_used, bundle, notQuery>>

\* step 6 without a key
NoKey ==
    /\ pcQ = "generate"
    /\ req.gemini_key = ""
    /\ pcQ' = "fallback"
    /\ UNCHANGED <<req, pool_size, scorer, items, evidence, resp, answer, llm_used, bundle, notQuery>>

\* step 6 with a key: `answer = _call_gemini(...)`, `if answer: llm_used = True`
CallGemini ==
    /\ pcQ = "generate"
    /\ req.gemini_key # ""
    /\ resp' \in GeminiResponses
    /\ answer' = call_gemini(resp')
    /\ llm_used' = (answer' # PyNone /\ answer'.v # <<>>)
    /\ pcQ' = "fallback"
    /\ UNCHANGED <<req, pool_size, scorer, items, evidence, bundle, notQuery>>

\* `if answer is None: answer = _fallback_answer(query, evidence)`
Fallback ==
    /\ pcQ = "fallback"
    /\ answer' = IF answer = PyNone
                   THEN PyStr(fallback_answer(req.query, evidence))
                   ELSE answer
    /\ pcQ' = "finish"
    /\ UNCHANGED <<req, pool_size, scorer, items, evidence, resp, llm_used, bundle, notQuery>>

\* steps 7 and 8, and the return
Finish ==
    /\ pcQ = "finish"
    /\ bundle' = [answer |-> answer.v, evidence |-> evidence,
                  confidence |-> confidence(evidence, answer.v),
                  num_records |-> arts.manifest.counts.records,
                  search_query |-> build_openfda_query(req.query, FIELD_ALLOWLIST),
                  prompt |-> build_prompt(req.query, evidence),
                  llm_used |-> llm_used, method |-> req.method]
    /\ pcQ' = "done"
    /\ UNCHANGED <<req, pool_size, scorer, items, evidence, resp, answer, llm_used, notQuery>>

NextQuery ==
    \/ FetchRecord \/ FetchEnd \/ FetchRaises \/ SubChunk \/ BuildReturn
    \/ BuildError \/ BuildCrash \/ Retrieve \/ NoRerank \/ Rerank
    \/ NoKey \/ CallGemini \/ Fallback \/ Finish

InitQuery ==
    /\ InitChunkIdle /\ InitResolveIdle /\ InitFanIdle
    /\ InitBuild({EngineConfig})
    /\ InitCall
    /\ InitFuseIdle /\ InitDisparityIdle /\ InitIntakeIdle
SpecQuery == InitQuery /\ [][NextQuery]_vars


\* ---- claims about run_rag_query
QueryReturned == pcQ = "done" /\ pcB = "done"
\* the generation service was asked and gave no usable text
ServiceFailed ==
    /\ req.gemini_key # ""
    /\ \/ resp.kind \in {"raises", "none"}
       \/ resp.kind = "text" /\ resp.body = <<>>
\* the answer is the text of the generation service
ServiceAnswered ==
    /\ req.gemini_key # ""
    /\ resp.kind = "text" /\ resp.lead + Len(resp.body) + resp.trail > 0

\* C13 (as stated): with an empty corpus both indices of the record tier are
\* absent, every retrieval method returns no evidence, and run_rag_query
\* returns the sentinel answer with confidence 0.0.
C13_EmptyCorpusSentinel ==
    (QueryReturned /\ arts.record_chunks = <<>>) =>
        /\ arts.bm25_A = PyNone /\ arts.faiss_A = PyNone
        /\ items = <<>> /\ bundle.evidence = <<>>
        /\ bundle.answer = SentinelAnswer
        /\ bundle.confidence = 0

\* C13 (amended): with an empty corpus both indices of the record tier are
\* absent, every retrieval method returns no evidence without raising, and
\* unless the answer is the text of the generation service, run_rag_query
\* returns the sentinel answer with confidence 0.0.
C13_EmptyCorpusNoEvidence ==
    /\ (pcB = "done" /\ arts.record_chunks = <<>>) =>
          /\ arts.bm25_A = PyNone /\ arts.faiss_A = PyNone
          /\ pcQ # "raised"
          /\ pcQ \notin {"idle", "build"} => items = <<>>
    /\ (QueryReturned /\ arts.record_chunks = <<>>) =>
          /\ bundle.evidence = <<>>
          /\ ~ServiceAnswered =>
                (bundle.answer = SentinelAnswer /\ bundle.confidence = 0)
C13_Witness ==
    /\ QueryReturned /\ arts.record_chunks = <<>> /\ records_count > 0
    /\ req.method = "hybrid" /\ req.gemini_key = ""
    /\ bundle.answer = SentinelAnswer

\* C15: when a credential is supplied and the call of the generation service
\* fails (exception, no response, empty or blank text), run_rag_query returns
\* the output of the extractive generator for the same evidence, and the
\* service-used flag is false.
C15_FailureFallsBack ==
    (QueryReturned /\ ServiceFailed) =>
        /\ bundle.answer = fallback_answer(req.query, bundle.evidence)
        /\ ~bundle.llm_used

\* C16: for evidence that is empty or has fewer than 200 characters in all,
\* the extractive generator returns exactly the sentinel sentence, and the
\* confidence computed for it is 0.0.
Extractive == req.gemini_key = "" \/ ~ServiceAnswered
C16_ShortEvidenceSentinel ==
    /\ (pcQ = "finish" /\ Extractive
          /\ (evidence = <<>> \/ TotalChars(evidence) < 200)) =>
          answer.v = SentinelAnswer
    /\ (QueryReturned /\ Extractive
          /\ (bundle.evidence = <<>> \/ TotalChars(bundle.evidence) < 200)) =>
          (bundle.answer = SentinelAnswer /\ bundle.confidence = 0)
C16_Witness ==
    /\ QueryReturned /\ req.gemini_key = ""
    /\ bundle.evidence # <<>> /\ TotalChars(bundle.evidence) = 199
    /\ bundle.answer = SentinelAnswer /\ bundle.confidence = 0

\* the words of an answer, a gap where it has something else
Ids(ans) == [i \in DOMAIN ans |-> IF IsWord(ans[i]) /\ ans[i].part = 0 THEN ans[i].id ELSE ""]
SaysNotEnough(ans) ==
    \E i \in DOMAIN ans :
        /\ i + 2 <= Len(ans)
        /\ SubSeq(Ids(ans), i, i + 1) = <<"Not", "enough">>
        /\ Ids(ans)[i + 2] \in {"evidence", "evidence."}
Formula(b) ==
    Min(100, 30 + 8 * Len(b.evidence) + 4 * CountCites(Skeleton(b.answer), FALSE))

\* C17 (as stated): the confidence is 0.0 if the answer equals the sentinel,
\* and min(1.0, 0.30 + 0.08 n + 0.04 c) for every other answer, n the number
\* of evidence items and c the number of citation markers in the answer.
C17_ZeroIffSentinel ==
    QueryReturned =>
        bundle.confidence = IF bundle.answer = SentinelAnswer THEN 0 ELSE Formula(bundle)

\* C17 (amended): the confidence is 0.0 if the answer contains "Not enough
\* evidence", the sentinel included, and min(1.0, 0.30 + 0.08 n + 0.04 c) for
\* every other answer; it lies within [0, 1].
C17_ZeroIffSaysNotEnough ==
    QueryReturned =>
        /\ bundle.confidence = IF SaysNotEnough(bundle.answer) THEN 0 ELSE Formula(bundle)
        /\ bundle.confidence \in 0..100
C17_Witness ==
    /\ QueryReturned
    /\ SaysNotEnough(bundle.answer) /\ bundle.answer # SentinelAnswer
    /\ bundle.confidence = 0 /\ Formula(bundle) > 0

\* C20: for every upstream failure while the corpus is built, run_rag_query
\* returns, and never raises, a bundle with no evidence, confidence 0.0 and
\* the service-used flag false, whose answer does not carry the diagnostic
\* detail of the failure.
CarriesDetail(ans, exc) ==
    \E i \in DOMAIN ans :
        /\ "exc" \in DOMAIN ans[i]
        /\ \E j \in DOMAIN exc.detail : InMessage(ans[i].exc, exc.detail[j])
C20_UpstreamFailureBundle ==
    (pcB = "raised" /\ pcQ # "build") =>
        /\ pcQ = "done"
        /\ bundle.evidence = <<>> /\ bundle.confidence = 0 /\ ~bundle.llm_used
        /\ ~CarriesDetail(bundle.answer, arts)


\* ------------------------------------------------------------------ C22
Retrieved == pcB = "done" /\ pcQ \in {"rerank", "generate", "fallback", "finish", "done"}
DenseAbsent == arts.faiss_A = PyNone \/ arts.manifest.embedder.type = "none"

\* C22 (as stated): the over-fetch pool of the retrieval has size
\* max(top_k, 20), and dense retrieval returns an empty list whenever the
\* dense index or the embedder is absent.
C22_PoolIsMaxOfTopKAnd20 ==
    Retrieved =>
        /\ pool_size = (IF req.top_k > 20 THEN req.top_k ELSE 20)
        /\ (pcQ = "rerank" /\ req.method = "dense" /\ DenseAbsent) => items = <<>>

\* C22 (amended): the over-fetch pool of the retrieval has size
\* max(20, 3 * top_k), the retrieval returns no more items than that, and
\* dense retrieval returns an empty list whenever the dense index or the
\* embedder is absent.
C22_PoolIsMaxOf20AndThreeTopK ==
    Retrieved =>
        /\ pool_size = (IF 3 * req.top_k > 20 THEN 3 * req.top_k ELSE 20)
        /\ pcQ = "rerank" => Len(items) <= pool_size
        /\ (pcQ = "rerank" /\ req.method = "dense" /\ DenseAbsent) => items = <<>>
C22_Witness ==
    /\ pcB = "done" /\ pcQ = "rerank"
    /\ req.top_k = 7 /\ pool_size = 21
    /\ req.method = "dense" /\ items # <<>>

\* ------------------------------------------------------------------ C23
\* C23: when the pairwise scorer fails to load or to score, _try_rerank
\* raises nothing and returns the first top_k items in the order they had;
\* with a rerank that succeeds, one that fails and none at all, the evidence
\* list has at most top_k items.
C23_RerankFailureKeepsOrder ==
    [][(pcQ = "rerank" /\ pcQ' # "rerank") =>
          /\ pcQ' = "generate"
          /\ Len(evidence') <= req.top_k
          /\ scorer' \in {"load_failed", "predict_failed"} =>
                /\ Len(items') = (IF Len(items) < req.top_k THEN Len(items) ELSE req.top_k)
                /\ \A i \in DOMAIN items' : items'[i] = items[i]]_vars
C23_Witness ==
    /\ pcQ = "generate" /\ scorer = "predict_failed"
    /\ Len(arts.record_chunks) > req.top_k
    /\ Len(evidence) = req.top_k

\* ------------------------------------------------------------------ C24
\* the lines of an answer, which blank lines separate
RECURSIVE LinesFrom(_, _)
LinesFrom(ans, cur) ==
    IF ans = <<>> THEN <<cur>>
    ELSE IF "nl" \in DOMAIN Head(ans) THEN <<cur>> \o LinesFrom(Tail(ans), <<>>)
    ELSE LinesFrom(Tail(ans), Append(cur, Head(ans)))
LinesOf(ans) == LinesFrom(ans, <<>>)
SentenceOf(line) == SubSeq(line, 1, Len(line) - 1)
CiteOf(line) == line[Len(line)]
QuestionScore(sent) == SentenceScore(Range(tokenize(req.query)), sent)
\* the sentences of the evidence that can be picked
Scoring(ev) ==
    UNION {{<<s, ev[i].cite>> : s \in Range(Sentences(ev[i].content))} : i \in DOMAIN ev}
Pickable(ev) ==
    {c \in Scoring(ev) : TextLen(c[1]) >= 30 /\ QuestionScore(c[1]) > 0}

\* C24: for evidence of 200 characters or more, the extractive generator
\* returns at most 5 sentences, each of 30 characters or more and of a score
\* above zero, in non-increasing order of score, no two with the same
\* case-insensitive prefix of 60 characters, each followed by the citation
\* key of its evidence item; it returns the sentinel when no sentence has a
\* score above zero.
C24_PickedSentences ==
    (/\ pcB = "done" /\ pcQ \in {"finish", "done"}
     /\ Extractive
     /\ evidence # <<>> /\ TotalChars(evidence) >= 200)
    => IF Pickable(evidence) = {} THEN answer.v = SentinelAnswer
       ELSE LET lines == LinesOf(answer.v) IN
            /\ Len(lines) \in 1..5
            /\ \A i \in DOMAIN lines :
                  /\ Len(lines[i]) >= 2
                  /\ <<SentenceOf(lines[i]), CiteOf(lines[i])>> \in Pickable(evidence)
            /\ \A i, j \in DOMAIN lines :
                  i < j =>
                    /\ QuestionScore(SentenceOf(lines[i])) >= QuestionScore(SentenceOf(lines[j]))
                    /\ SentenceKey(SentenceOf(lines[i])) # SentenceKey(SentenceOf(lines[j]))
C24_Witness ==
    /\ pcB = "done" /\ pcQ = "done" /\ req.gemini_key = ""
    /\ Len(evidence) = 1
    /\ Cardinality(Pickable(evidence)) > 5
    /\ Len(LinesOf(answer.v)) = 5

\* ------------------------------------------------------------------ C25
\* twice the median of a list of counts
TwiceMedian(counts) ==
    LET sorted == SortAsc(counts)
        n == Len(sorted)
    IN IF n % 2 = 1 THEN 2 * sorted[(n + 1) \div 2]
       ELSE sorted[n \div 2] + sorted[(n \div 2) + 1]

\* C25: the over-warned list holds exactly the confirmed risks whose count
\* is below 30% of the median count of the confirmed risks, in their
\* order; for an even number of confirmed risks the median is the mean of
\* the two middle counts.
C25_OverWarnedBelowMedian ==
    (pcD = "done" /\ report.reactions_on_label_with_high_faers # <<>>) =>
        LET confirmed == report.reactions_on_label_with_high_faers
            m2 == TwiceMedian([i \in DOMAIN confirmed |-> confirmed[i].faers_count])
        IN report.reactions_on_label_with_low_faers =
              SubseqAt(confirmed,
                       {i \in DOMAIN confirmed : confirmed[i].faers_count * 20 < m2 * 3})


\* ------------------------------------------------- _fetch_label_sections
\* (src/src/rag/drug_profile.py:75-117)

\* f'openfda.generic_name:"{generic_name}"', f'openfda.brand_name:"{brand_name}"'
\* and the bare name, each a string written as its pieces
GenericQuery(g) == <<"openfda.generic_name:\"">> \o g \o <<"\"">>
BrandQuery(b) == <<"openfda.brand_name:\"">> \o b \o <<"\"">>
BareQuery(g) == g

\* `queries`, as the function builds it from its arguments
QueriesOf(generic_name, brand_name) ==
    LET named == (IF TruthyStr(generic_name) THEN <<GenericQuery(generic_name)>> ELSE <<>>)
                 \o (IF TruthyStr(brand_name) THEN <<BrandQuery(brand_name)>> ELSE <<>>)
    IN IF named = <<>> THEN <<BareQuery(generic_name)>> ELSE named

\* merged[field] = text `if field not in merged or len(text) > len(merged[field])`:
\* the dict as the sequence of its items, in insertion order
MergeField(m, f) ==
    IF \E i \in DOMAIN m : m[i].key = f.key
      THEN [i \in DOMAIN m |->
               IF m[i].key = f.key /\ TextLen(f.text) > TextLen(m[i].text) THEN f ELSE m[i]]
      ELSE Append(m, f)
RECURSIVE MergeFields(_, _)
MergeFields(m, fs) ==
    IF fs = <<>> THEN m ELSE MergeFields(MergeField(m, Head(fs)), Tail(fs))
RECURSIVE MergeLabels(_, _)
MergeLabels(m, recs) ==
    IF recs = <<>> THEN m
    ELSE MergeLabels(
            MergeFields(m, pick_text_fields(Head(recs).fields, PyNone, FIELD_BLOCKLIST, FALSE)),
            Tail(recs))

\* ---- what the caller and the label source can supply
LabelNames == {<<>>, <<"ibuprofen">>}
LabelBrands == {NoneStr, <<>>, <<"advil">>}
LabelA == Rec([id |-> PyStr(DocD1)],
              <<Field("warnings", <<W3>>), Field("dosage", <<W1>>)>>)
LabelB == Rec([id |-> PyStr(DocD1)],
              <<Field("warnings", <<W1, W1>>), Field("dosage", <<W3, W1>>),
                Field("set_id", <<W1>>)>>)
LabelNoText == Rec([id |-> PyStr(DocD1)], <<Field("warnings", <<>>)>>)
\* the answers of the source to one search: a list of records, possibly
\* empty, or a failure of the request
LabelPages == {<<>>, <<LabelA>>, <<LabelA, LabelB>>, <<LabelB, LabelA>>, <<LabelNoText>>}
LabelAnswers ==
    {[kind |-> "records", records |-> p] : p \in LabelPages}
    \cup {[kind |-> "failure", exc |-> e] : e \in RequestFailures}

\* what a search that was sent came to
Sent(q, a) ==
    [search |-> q,
     got |-> IF a.kind = "failure" THEN "failed"
             ELSE IF a.records = <<>> THEN "empty" ELSE "records"]

\* the call: `queries` is built, `records` is the empty list
LabelCall ==
    /\ pcL = "idle"
    /\ \E g \in LabelNames, b \in LabelBrands :
          /\ label_args' = [generic_name |-> g, brand_name |-> b]
          /\ queries' = QueriesOf(g, b)
    /\ pcL' = "loop"
    /\ UNCHANGED <<q_i, issued, label_records, label_out, notLabel>>

\* one iteration of `for q in queries`: a RuntimeError goes on to the next
\* query, any other exception leaves the function, a non-empty list breaks
LabelQuery ==
    /\ pcL = "loop"
    /\ q_i <= Len(queries)
    /\ \E a \in LabelAnswers :
          /\ issued' = Append(issued, Sent(queries[q_i], a))
          /\ IF a.kind = "failure"
               THEN IF a.exc.type = "RuntimeError"
                      THEN /\ q_i' = q_i + 1
                           /\ pcL' = pcL
                           /\ UNCHANGED <<label_records, label_out>>
                      ELSE /\ label_out' = a.exc
                           /\ pcL' = "raised"
                           /\ UNCHANGED <<q_i, label_records>>
               ELSE /\ label_records' = a.records
                    /\ UNCHANGED label_out
                    /\ IF a.records # <<>>
                         THEN /\ pcL' = "bare"
                              /\ UNCHANGED q_i
                         ELSE /\ q_i' = q_i + 1
                              /\ pcL' = pcL
    /\ UNCHANGED <<label_args, queries, notLabel>>

\* the loop has run out of queries
LabelLoopEnd ==
    /\ pcL = "loop"
    /\ q_i > Len(queries)
    /\ pcL' = "bare"
    /\ UNCHANGED <<label_args, queries, q_i, issued, label_records, label_out, notLabel>>

\* `if not records:` the search for the bare name; a RuntimeError is passed
LabelBare ==
    /\ pcL = "bare"
    /\ label_records = <<>>
    /\ \E a \in LabelAnswers :
          /\ issued' = Append(issued, Sent(BareQuery(label_args.generic_name), a))
          /\ IF a.kind = "failure"
               THEN IF a.exc.type = "RuntimeError"
                      THEN /\ pcL' = "merge"
                           /\ UNCHANGED <<label_records, label_out>>
                      ELSE /\ label_out' = a.exc
                           /\ pcL' = "raised"
                           /\ UNCHANGED label_records
               ELSE /\ label_records' = a.records
                    /\ pcL' = "merge"
                    /\ UNCHANGED label_out
    /\ UNCHANGED <<label_args, queries, q_i, notLabel>>

\* records were found: no bare search
LabelNoBare ==
    /\ pcL = "bare"
    /\ label_records # <<>>
    /\ pcL' = "merge"
    /\ UNCHANGED <<label_args, queries, q_i, issued, label_records, label_out, notLabel>>

\* the merge loop and the return
LabelMerge ==
    /\ pcL = "merge"
    /\ label_out' = MergeLabels(<<>>, label_records)
    /\ pcL' = "done"
    /\ UNCHANGED <<label_args, queries, q_i, issued, label_records, notLabel>>

NextLabel ==
    LabelCall \/ LabelQuery \/ LabelLoopEnd \/ LabelBare \/ LabelNoBare \/ LabelMerge

InitLabel ==
    /\ InitChunkIdle /\ InitResolveIdle /\ InitFanIdle /\ InitEngineIdle

SpecLabel == InitLabel /\ [][NextLabel]_vars

\* ---- claims about _fetch_label_sections

LabelEnded == pcL \in {"done", "raised"}
\* the three searches of the cascade in the claimed order, a name that is
\* not given leaving its search out
Cascade ==
    (IF TruthyStr(label_args.generic_name)
       THEN <<GenericQuery(label_args.generic_name)>> ELSE <<>>)
    \o (IF TruthyStr(label_args.brand_name)
          THEN <<BrandQuery(label_args.brand_name)>> ELSE <<>>)
    \o <<BareQuery(label_args.generic_name)>>

\* C26: the searches are sent in the order generic name, brand name, bare
\* name; no search follows one that returned records; a search that failed
\* counts as empty and the next one is tried, so the function returns on
\* every path; and when every search failed or was empty the result is the
\* empty mapping.
C26_CascadeStopsAtFirstRecords ==
    LabelEnded =>
        /\ pcL = "done"
        /\ Len(issued) <= Len(Cascade)
        /\ \A i \in DOMAIN issued : issued[i].search = Cascade[i]
        /\ \A i \in DOMAIN issued : issued[i].got = "records" => i = Len(issued)
        /\ (\A i \in DOMAIN issued : issued[i].got # "records") =>
              /\ Len(issued) = Len(Cascade)
              /\ label_out = <<>>


\* --------------------------------------------------------- _merge_records
\* (src/src/ingestion/ndc.py:53-62, 114-219)
\* A product record is a JSON object of the NDC directory: its strings are
\* sequences of characters, so that str.upper() is computed; a key it does
\* not hold reads as the default of rec.get.

UpperChar(c) ==
    IF \E i \in DOMAIN LowerLetters : LowerLetters[i] = c
      THEN UpperLetters[CHOOSE i \in DOMAIN LowerLetters : LowerLetters[i] = c]
      ELSE c
\* str.upper()
Upper(s) == [i \in DOMAIN s |-> UpperChar(s[i])]

\* the key _unique and the ingredient loop deduplicate on
UniqueKey_exact(x) == x
UniqueKey(x) == Upper(x)

\* _unique(items): the first item of each key, in the order of the list
RECURSIVE UniqueFrom(_, _)
UniqueFrom(its, seen) ==
    IF its = <<>> THEN <<>>
    ELSE IF UniqueKey(Head(its)) \in seen THEN UniqueFrom(Tail(its), seen)
    ELSE <<Head(its)>> \o UniqueFrom(Tail(its), seen \cup {UniqueKey(Head(its))})
unique(its) == UniqueFrom(its, {})

\* the loop over `ingredients`: the first entry of each upper-cased name
RECURSIVE UniqueIngredientsFrom(_, _)
UniqueIngredientsFrom(ings, seen_ing) ==
    IF ings = <<>> THEN <<>>
    ELSE IF UniqueKey(Head(ings).name) \in seen_ing
           THEN UniqueIngredientsFrom(Tail(ings), seen_ing)
    ELSE <<Head(ings)>>
         \o UniqueIngredientsFrom(Tail(ings), seen_ing \cup {UniqueKey(Head(ings).name)})

\* `x = rec.get(key, ""); if x: xs.append(x)`
Given(rec, key) ==
    LET x == Get(rec, key, <<>>) IN IF x # <<>> THEN <<x>> ELSE <<>>
\* the entries of active_ingredients with a name
IngredientsIn(rec) ==
    LET ais == Get(rec, "active_ingredients", <<>>)
        all == [i \in DOMAIN ais |->
                  [name |-> Get(ais[i], "name", <<>>),
                   strength |-> Get(ais[i], "strength", <<>>)]]
    IN SubseqAt(all, {i \in DOMAIN all : all[i].name # <<>>})
\* the package_ndc of each packaging, then the product_ndc
NdcsIn(rec) ==
    LET packs == Get(rec, "packaging", <<>>)
    IN ConcatAll([i \in DOMAIN packs |-> Given(packs[i], "package_ndc")])
       \o Given(rec, "product_ndc")
\* `for r in rec.get("route", []): if r: routes.append(r)`
RoutesIn(rec) ==
    LET rs == Get(rec, "route", <<>>)
    IN SubseqAt(rs, {i \in DOMAIN rs : rs[i] # <<>>})
\* `for c in openfda.get(key, []): xs.append(c)`: no item is left out
OpenfdaIn(rec, key) == Get(Get(rec, "openfda", EmptyDict), key, <<>>)

\* the lists the loop over `records` fills
CollectIngredients(records) ==
    ConcatAll([i \in DOMAIN records |-> IngredientsIn(records[i])])
CollectNdcs(records) == ConcatAll([i \in DOMAIN records |-> NdcsIn(records[i])])
CollectRoutes(records) == ConcatAll([i \in DOMAIN records |-> RoutesIn(records[i])])
CollectKey(records, key) == ConcatAll([i \in DOMAIN records |-> Given(records[i], key)])
CollectOpenfda(records, key) ==
    ConcatAll([i \in DOMAIN records |-> OpenfdaIn(records[i], key)])

\* `_unique(xs)[0] if xs else None`
FirstOrNone(xs) == IF xs # <<>> THEN unique(xs)[1] ELSE NoneStr

\* `if gn and not resolved_generic: resolved_generic = gn`
ResolvedGeneric(records, generic_name) ==
    LET gns == CollectKey(records, "generic_name")
    IN IF generic_name = <<>> /\ gns # <<>> THEN gns[1] ELSE generic_name

merge_records(records, generic_name) ==
    [brand_names |-> unique(CollectKey(records, "brand_name")),
     generic_name |-> ResolvedGeneric(records, generic_name),
     manufacturer |-> FirstOrNone(CollectKey(records, "labeler_name")),
     active_ingredients |-> UniqueIngredientsFrom(CollectIngredients(records), {}),
     dosage_forms |-> unique(CollectKey(records, "dosage_form")),
     routes |-> unique(CollectRoutes(records)),
     marketing_category |-> FirstOrNone(CollectKey(records, "marketing_category")),
     application_number |-> FirstOrNone(CollectKey(records, "application_number")),
     product_type |-> FirstOrNone(CollectKey(records, "product_type")),
     pharm_class_epc |-> unique(CollectOpenfda(records, "pharm_class_epc")),
     pharm_class_moa |-> unique(CollectOpenfda(records, "pharm_class_moa")),
     pharm_class_cs |-> unique(CollectOpenfda(records, "pharm_class_cs")),
     dea_schedule |-> FirstOrNone(CollectKey(records, "dea_schedule")),
     product_ndcs |-> unique(CollectNdcs(records)),
     rxcuis |-> unique(CollectOpenfda(records, "rxcui"))]

\* ---- what the caller can supply
MaxNdcRecords == 2

Chars(a, b) == <<a, b>>
Ingredient(name, strength) == [name |-> name, strength |-> strength]
NdcAdvil ==
    [brand_name |-> Chars("A", "b"), generic_name |-> Chars("i", "b"),
     labeler_name |-> Chars("P", "f"),
     active_ingredients |-> <<Ingredient(Chars("I", "B"), Chars("2", "0")),
                              Ingredient(<<>>, Chars("9", "9"))>>,
     packaging |-> <<[package_ndc |-> Chars("n", "1")], [description |-> Chars("b", "x")]>>,
     product_ndc |-> Chars("n", "0"),
     dosage_form |-> Chars("T", "A"),
     route |-> <<Chars("O", "R"), <<>>, Chars("o", "r")>>,
     marketing_category |-> Chars("O", "T"),
     openfda |-> [rxcui |-> <<Chars("5", "6"), Chars("5", "6")>>,
                  pharm_class_epc |-> <<Chars("N", "S"), <<>>, Chars("n", "s")>>]]
NdcMotrin ==
    [brand_name |-> Chars("M", "o"), generic_name |-> Chars("I", "B"),
     labeler_name |-> Chars("p", "f"),
     active_ingredients |-> <<Ingredient(Chars("i", "b"), Chars("4", "0")),
                              Ingredient(Chars("c", "f"), Chars("6", "5"))>>,
     packaging |-> <<[package_ndc |-> Chars("N", "0")], [package_ndc |-> Chars("n", "2")]>>,
     product_ndc |-> Chars("N", "1"),
     dosage_form |-> Chars("t", "a"),
     route |-> <<Chars("T", "O"), Chars("o", "R")>>,
     application_number |-> Chars("A", "1"),
     product_type |-> Chars("H", "O"),
     dea_schedule |-> Chars("C", "2"),
     openfda |-> [rxcui |-> <<Chars("7", "8"), Chars("5", "6")>>,
                  pharm_class_moa |-> <<Chars("C", "I")>>,
                  pharm_class_cs |-> <<<<>>>>]]
NdcUpper ==
    [brand_name |-> Chars("A", "B"), labeler_name |-> <<>>,
     marketing_category |-> Chars("o", "t"), application_number |-> Chars("a", "1"),
     openfda |-> [pharm_class_epc |-> <<<<>>, Chars("N", "s")>>]]
NdcBare == [product_ndc |-> Chars("n", "0"), brand_name |-> <<>>]
NdcStore ==
    [brand_name |-> Chars("a", "b"), labeler_name |-> Chars("C", "V"),
     active_ingredients |-> <<Ingredient(Chars("C", "F"), <<>>)>>,
     route |-> <<>>, dea_schedule |-> <<>>]
NdcProducts == {NdcAdvil, NdcMotrin, NdcUpper, NdcBare, NdcStore}
NdcLists == UNION {[1..n -> NdcProducts] : n \in 0..MaxNdcRecords}
NdcGenerics == {<<>>, Chars("i", "b")}

InitNdcCall ==
    /\ ndc_records \in NdcLists
    /\ ndc_generic \in NdcGenerics
    /\ ndc_out = EmptyDict
    /\ pcN = "call"

\* the call of _merge_records, as fetch_ndc_metadata makes it
MergeRecords ==
    /\ pcN = "call"
    /\ ndc_out' = merge_records(ndc_records, ndc_generic)
    /\ pcN' = "done"
    /\ UNCHANGED <<ndc_records, ndc_generic, notNdc>>

NextNdc == MergeRecords

InitNdc ==
    /\ InitChunkIdle /\ InitResolveIdle /\ InitFanIdle
    /\ InitCorpusIdle /\ InitQueryIdle /\ InitFuseIdle /\ InitDisparityIdle
    /\ InitLabelIdle /\ InitIterIdle
    /\ InitNdcCall
SpecNdc == InitNdc /\ [][NextNdc]_vars

\* ---- claims about _merge_records

\* the values of a list that are the first of their case-insensitive class
FirstOfClass(vs) ==
    SubseqAt(vs, {i \in DOMAIN vs : \A j \in 1..(i - 1) : Upper(vs[j]) # Upper(vs[i])})
\* the first non-empty value of a key over the records, or None
FirstGiven(key) ==
    LET at == {i \in DOMAIN ndc_records : Get(ndc_records[i], key, <<>>) # <<>>}
    IN IF at = {} THEN NoneStr
       ELSE ndc_records[CHOOSE i \in at : \A j \in at : i <= j][key]
\* the values the records hold for each list of the result, in the order of
\* the records and, within a record, of the JSON lists
ValuesFor(name) ==
    CASE name = "brand_names" -> CollectKey(ndc_records, "brand_name")
      [] name = "dosage_forms" -> CollectKey(ndc_records, "dosage_form")
      [] name = "routes" -> CollectRoutes(ndc_records)
      [] name = "product_ndcs" -> CollectNdcs(ndc_records)
      [] name = "rxcuis" -> CollectOpenfda(ndc_records, "rxcui")
      [] name = "pharm_class_epc" -> CollectOpenfda(ndc_records, "pharm_class_epc")
      [] name = "pharm_class_moa" -> CollectOpenfda(ndc_records, "pharm_class_moa")
      [] name = "pharm_class_cs" -> CollectOpenfda(ndc_records, "pharm_class_cs")
ListKeys ==
    {"brand_names", "dosage_forms", "routes", "product_ndcs", "rxcuis",
     "pharm_class_epc", "pharm_class_moa", "pharm_class_cs"}
ScalarKeys ==
    [manufacturer |-> "labeler_name", marketing_category |-> "marketing_category",
     application_number |-> "application_number", product_type |-> "product_type",
     dea_schedule |-> "dea_schedule"]

\* C27: every list of the result holds one value of each case-insensitive
\* class of the values of the records, the first one met, in the order in
\* which the classes are first met; the ingredients hold one entry per name
\* class, with the strength met first; every scalar field is the first
\* non-empty value of its key over the records, or None when there is none.
C27_ListsDedupedScalarsFirst ==
    pcN = "done" =>
        /\ \A name \in ListKeys :
              /\ ndc_out[name] = FirstOfClass(ValuesFor(name))
              /\ \A i, j \in DOMAIN ndc_out[name] :
                    Upper(ndc_out[name][i]) = Upper(ndc_out[name][j]) => i = j
              /\ \A v \in Range(ValuesFor(name)) :
                    \E i \in DOMAIN ndc_out[name] : Upper(ndc_out[name][i]) = Upper(v)
        /\ LET ings == CollectIngredients(ndc_records)
               kept == ndc_out.active_ingredients
           IN /\ \A i, j \in DOMAIN kept : Upper(kept[i].name) = Upper(kept[j].name) => i = j
              /\ [i \in DOMAIN kept |-> kept[i].name]
                    = FirstOfClass([i \in DOMAIN ings |-> ings[i].name])
              /\ \A i \in DOMAIN kept :
                    LET first == CHOOSE n \in DOMAIN ings :
                                    /\ Upper(ings[n].name) = Upper(kept[i].name)
                                    /\ \A m \in 1..(n - 1) :
                                          Upper(ings[m].name) # Upper(kept[i].name)
                    IN kept[i].strength = ings[first].strength
        /\ \A key \in DOMAIN ScalarKeys : ndc_out[key] = FirstGiven(ScalarKeys[key])

\* two records whose brand names, routes and ingredient names differ in case
\* only were merged, with one scalar field given and another not
C27_Witness ==
    /\ pcN = "done"
    /\ Len(ndc_records) = 2
    /\ Len(ndc_out.brand_names) < Len(CollectKey(ndc_records, "brand_name"))
    /\ Len(ndc_out.routes) < Len(CollectRoutes(ndc_records))
    /\ Len(ndc_out.active_ingredients) < Len(CollectIngredients(ndc_records))
    /\ ndc_out.manufacturer # NoneStr
    /\ ndc_out.dea_schedule = NoneStr


\* --------------------------------------------------- iter_openfda_records
\* (src/src/openfda_rag.py:185-231, 168-182)
\* The records of a page are counted, not held: the generator hands on what
\* the source returns. The consumer takes every record the generator yields.

OPENFDA_MAX_LIMIT == 1000
\* min(max(1, limit), OPENFDA_MAX_LIMIT)
ClampLimit(limit) == Min(Max(1, limit), OPENFDA_MAX_LIMIT)

\* batch_limit of one iteration
BatchLimit_uncapped(limit, max_records, n) == limit
BatchLimit(limit, max_records, n) ==
    IF max_records # PyNone THEN Min(limit, max_records.v - n) ELSE limit

\* `if max_records is not None and fetched >= max_records`
CapReached(max_records, n) == max_records # PyNone /\ n >= max_records.v

\* ---- what the caller and the source can supply
MaxPages == 3

IterCaps == {PyNone, PyInt(0), PyInt(1), PyInt(3)}
IterArgs ==
    {[limit |-> l, max_records |-> m] : l \in {0, 2, 1000, 2000}, m \in IterCaps}
    \cup {[limit |-> l, max_records |-> PyInt(1500)] : l \in {1000, 2000}}
\* the sizes of the answer to a request for b records: none, fewer, as
\* many, and more than asked for
PageSizes(b) == {0, b - 1, b, b + 1} \cap Nat

InitIterCall ==
    /\ iter_args \in IterArgs
    /\ fetched = 0
    /\ skip = 0
    /\ requests = <<>>
    /\ pcI = "loop"

\* the loop returns before a request: the cap is reached, or no record is
\* left to ask for
IterCapReturn ==
    /\ pcI = "loop"
    /\ LET limit == ClampLimit(iter_args.limit)
           M == iter_args.max_records
       IN \/ CapReached(M, fetched)
          \/ BatchLimit(limit, M, fetched) <= 0
    /\ pcI' = "done"
    /\ UNCHANGED <<iter_args, fetched, skip, requests, notIter>>

\* one iteration with a request that is answered: the records of the page
\* are yielded until the cap is reached; the loop goes on after a full page
IterPage ==
    /\ pcI = "loop"
    /\ iter_args.max_records = PyNone => Len(requests) < MaxPages
    /\ LET limit == ClampLimit(iter_args.limit)
           M == iter_args.max_records
           batch_limit == BatchLimit(limit, M, fetched)
       IN /\ ~CapReached(M, fetched)
          /\ batch_limit > 0
          /\ \E n \in PageSizes(ClampLimit(batch_limit)) :
               LET yielded == IF M # PyNone THEN Min(n, M.v - fetched) ELSE n
                   capped == CapReached(M, fetched + yielded)
               IN /\ requests' = Append(requests,
                                    [skip |-> skip, limit |-> ClampLimit(batch_limit),
                                     got |-> n])
                  /\ fetched' = fetched + yielded
                  /\ IF n = 0 \/ capped
                       THEN /\ pcI' = "done"
                            /\ UNCHANGED skip
                       ELSE /\ skip' = skip + n
                            /\ pcI' = IF n < batch_limit THEN "done" ELSE "loop"
    /\ UNCHANGED <<iter_args, notIter>>

\* one iteration with a request that fails: the exception leaves the generator
IterRaises ==
    /\ pcI = "loop"
    /\ iter_args.max_records = PyNone => Len(requests) < MaxPages
    /\ LET limit == ClampLimit(iter_args.limit)
           M == iter_args.max_records
           batch_limit == BatchLimit(limit, M, fetched)
       IN /\ ~CapReached(M, fetched)
          /\ batch_limit > 0
          /\ \E e \in RequestFailures :
               requests' = Append(requests,
                              [skip |-> skip, limit |-> ClampLimit(batch_limit), got |-> 0])
    /\ pcI' = "raised"
    /\ UNCHANGED <<iter_args, fetched, skip, notIter>>

NextIter == IterCapReturn \/ IterPage \/ IterRaises

InitIter ==
    /\ InitChunkIdle /\ InitResolveIdle /\ InitFanIdle
    /\ InitCorpusIdle /\ InitQueryIdle /\ InitFuseIdle /\ InitDisparityIdle
    /\ InitLabelIdle /\ InitNdcIdle
    /\ InitIterCall
SpecIter == InitIter /\ [][NextIter]_vars
\* the generator is driven by a for loop and every request comes back (an
\* answer, or the failure after timeout_s): it keeps running while it can
SpecIterFair == SpecIter /\ WF_vars(NextIter)

\* ---- claims about iter_openfda_records

RECURSIVE Received(_)
\* the records the source returned to the requests of a log
Received(log) == IF log = <<>> THEN 0 ELSE Last(log).got + Received(SubSeq(log, 1, Len(log) - 1))
ReceivedBefore(i) == Received(SubSeq(requests, 1, i - 1))
IterEnded == pcI \in {"done", "raised"}
Capped == iter_args.max_records # PyNone

C28_Safety ==
    /\ Capped => fetched <= iter_args.max_records.v
    /\ \A i \in DOMAIN requests :
          /\ requests[i].skip = ReceivedBefore(i)
          /\ requests[i].limit \in 1..OPENFDA_MAX_LIMIT
          /\ Capped => requests[i].limit <= iter_args.max_records.v - ReceivedBefore(i)
          \* no request after a page that is empty or short, or that fills the cap
          /\ requests[i].got < requests[i].limit => i = Len(requests)
          /\ (Capped /\ ReceivedBefore(i + 1) >= iter_args.max_records.v) => i = Len(requests)
    /\ (pcI = "loop" /\ requests # <<>>) =>
          /\ Last(requests).got >= Last(requests).limit
          /\ Capped => fetched < iter_args.max_records.v
    /\ pcI = "done" =>
          \/ Capped /\ fetched >= iter_args.max_records.v
          \/ requests # <<>> /\ Last(requests).got < Last(requests).limit

\* C28: with the record cap M the generator yields at most M records; every
\* request carries as skip the number of records received so far and a page
\* size in [1, 1000] that is not above what is left of the cap; no request
\* follows a page that is empty or shorter than asked for, or the M-th
\* record; and with a finite M the generator ends whatever the source does.
C28_CappedPagesTerminate ==
    /\ []C28_Safety
    /\ (Capped => <>IterEnded)

\* a cap of 1500 records with pages of 1000: the second page was asked for
\* with skip 1000 and limit 500, and the cap was reached
C28_Witness ==
    /\ pcI = "done"
    /\ Capped
    /\ fetched = iter_args.max_records.v
    /\ Len(requests) = 2
    /\ requests[2].limit < requests[1].limit
    /\ requests[2].skip > 0

====
